---------------------------- MODULE Spec2Model ----------------------------
(***************************************************************************)
(* Sodium: an in-memory key/value cache served over TCP.                   *)
(*                                                                         *)
(* The module models                                                       *)
(*   - the store (server/cache.rs): Sodium::set/get/delete/keys and the    *)
(*     execute_* wrappers the workers call;                                *)
(*   - the reply formatting of TcpApiServer::execute_command               *)
(*     (server/api.rs);                                                    *)
(*   - the worker pool (server/threading.rs): the work queues with their   *)
(*     try-lock, round-robin submission, the worker loop with stealing,    *)
(*     the shutdown flags;                                                 *)
(*   - the connection task TcpApiServer::handle_client (server/api.rs);    *)
(*   - the parsers: Command::parse of sodium-server/api.rs (function-call  *)
(*     syntax, with search) and of server/api.rs (legacy syntax);          *)
(*   - the search of sodium-server/search.rs;                              *)
(*   - the loading of sodium.toml (server/configuration.rs).               *)
(*                                                                         *)
(* Specifications:                                                         *)
(*   SpecStore  one request at a time, each dispatched and executed to     *)
(*              completion (no concurrent access to the store);            *)
(*   Spec       connection tasks, workers and a shutdown caller            *)
(*              interleaved at the grain of the atomic operations and the  *)
(*              queue mutex;                                               *)
(*   FairSpec   Spec with connections that go on issuing requests and with *)
(*              the fairness of thread scheduling;                         *)
(*   SpecRace   two threads inside the store, at the grain of the DashMap  *)
(*              guards;                                                    *)
(*   SpecClients  clients that each write and read back their own keys;    *)
(*   SpecLines  connections that send lines of characters, parsed by       *)
(*              Command::parse (sodium-server/api.rs) before dispatch;     *)
(*   SpecIO     connections whose reads and writes can fail, and the       *)
(*              accept loop;                                               *)
(*   SpecCancel connections whose tasks the runtime drops while their      *)
(*              requests are queued or executing;                          *)
(*   SpecSearchDel  a search, one cache call at a time, beside a DEL;      *)
(*   SpecInsert  lines served one at a time by either build's parser;      *)
(*   SpecVisible  a writer and a reader on two connections;                *)
(*   SpecEffects  one command executed on a store filled earlier;          *)
(*   SpecSearchArgs, SpecLegacySet  Command::parse on search(..) lines and *)
(*              on legacy SET lines;                                       *)
(*   SpecReply, SpecKey, SpecParse, SpecSearch, SpecConfig, SpecSplit      *)
(*              execute_command, validate_key, Command::parse,             *)
(*              SearchEngine::search_multiple, load_and_heal and           *)
(*              split_function_args called on each of a bounded set of     *)
(*              arguments.                                                 *)
(***************************************************************************)
EXTENDS Integers, Sequences, FiniteSets, TLC

(***************************************************************************)
(* Bounds of the model.                                                    *)
(***************************************************************************)
\* Requests served in a behaviour of SpecStore.
MaxOps == 4
\* Largest value SystemTime::now() takes (seconds since the first request).
MaxTime == 1

\* Keys that pass Command::validate_key, and values a client sends.  "NULL"
\* is a value like any other for SET.
Keys == {"k1", "k2"}
Values == {"v1", "NULL"}

\* Work queues and workers of the pool (num_cpus::get()), connections, and
\* request lines the connections send in a behaviour of Spec.
NumQueues == 2
NumConns == 2
MaxLines == 3
PerClient == 2
\* Longest string given to Command::validate_key in SpecKey.
MaxKeyLen == 5
\* Most queries of one search in SpecSearch.
MaxQueries == 2

VARIABLES
    cache,        \* GLOBAL_CACHE: the Sodium store
    now,          \* the reading of SystemTime::now(), in seconds
    log,          \* SpecStore: the requests served so far, with their replies
    queues,       \* WorkQueue::queue of each queue: the tasks, head first
    lock,         \* the thread holding each queue's Mutex, or Free
    is_shutdown,  \* WorkQueue::is_shutdown of each queue
    shutdown,     \* ThreadPool::shutdown
    next_queue,   \* ThreadPool::next_queue
    workers,      \* each worker thread: where it is in worker_loop, its task
    conns,        \* each connection task: where it is in handle_client
    chan,         \* the results sent on the reply channel of each
                  \* connection's request in flight
    sd,           \* the stores ThreadPool::shutdown has done so far
    accepted,     \* the tasks pushed on a queue so far
    rejected,     \* the tasks whose submission failed so far
    executed,     \* how many times each task was executed so far
    recording,    \* whether the behaviour records its histories and counters
    shard,        \* DashMap: the threads holding a read guard on each key's shard
    thr,          \* SpecRace: two threads inside Sodium::get/set/delete
    budget,       \* the number of lines the clients send in all
    arg,          \* the argument a function is called with
    ret           \* what the call returned, once it has

storeVars == <<cache, now, log>>
poolVars == <<queues, lock, is_shutdown, shutdown, next_queue, workers, sd>>
connVars == <<conns, chan>>
histVars == <<accepted, rejected, executed>>
auxVars == <<shard, thr, budget, arg, ret>>
vars == <<cache, now, log, queues, lock, is_shutdown, shutdown, next_queue,
          workers, conns, chan, sd, accepted, rejected, executed, recording,
          shard, thr, budget, arg, ret>>

(***************************************************************************)
(* Values of the program's types.                                          *)
(***************************************************************************)
\* Result<T, E>
Ok(v) == [ok |-> TRUE, val |-> v]
Err(e) == [ok |-> FALSE, err |-> e]
\* (), Option<String>, bool, Vec<String>, String
Unit == [kind |-> "unit"]
SomeV(v) == [kind |-> "some", v |-> v]
NoneV == [kind |-> "none"]
BoolV(b) == [kind |-> "bool", b |-> b]
VecV(s) == [kind |-> "vec", keys |-> s]
StrV(v) == [kind |-> "string", v |-> v]

\* CacheError::KeyNotFound and its Display text (#[error("Key not found: {0}")]).
KeyNotFound(key) == "Key not found: " \o key

\* enum Command (the variants of server/api.rs)
CmdSet(key, value) == [op |-> "Set", key |-> key, value |-> value]
CmdGet(key) == [op |-> "Get", key |-> key]
CmdDelete(key) == [op |-> "Delete", key |-> key]
CmdKeys == [op |-> "Keys"]
CmdSearch(search_type, queries) ==
    [op |-> "Search", search_type |-> search_type, queries |-> queries]
Commands ==
    {CmdSet(k, v) : k \in Keys, v \in Values}
        \cup {CmdGet(k) : k \in Keys}
        \cup {CmdDelete(k) : k \in Keys}
        \cup {CmdKeys}

\* The orders in which DashMap::iter can visit the keys: every arrangement
\* of the key universe; the keys present are visited in that order.
RECURSIVE Arrangements(_)
Arrangements(S) ==
    IF S = {} THEN {<<>>}
    ELSE UNION {{<<x>> \o t : t \in Arrangements(S \ {x})} : x \in S}

IterOrders == Arrangements(Keys)

\* A join that puts the separator after every element.
RECURSIVE join_trailing(_, _)
join_trailing(s, sep) ==
    IF s = <<>> THEN "" ELSE s[1] \o sep \o join_trailing(Tail(s), sep)

\* Vec<String>::join(sep)
RECURSIVE join(_, _)
join(s, sep) ==
    IF s = <<>> THEN ""
    ELSE IF Len(s) = 1 THEN s[1]
    ELSE s[1] \o sep \o join(Tail(s), sep)

(***************************************************************************)
(* The store: server/cache.rs.                                             *)
(***************************************************************************)
\* CacheEntry::new
CacheEntry_new(value, t) == [value |-> value, accessed_at |-> t]

\* An update_access_time that leaves the time of the entry as it was.
update_access_time_skipped(entry, t) == entry

\* CacheEntry::update_access_time
update_access_time(entry, t) == [entry EXCEPT !.accessed_at = t]

\* DashMap::insert: insert or replace.
DashMap_insert(m, key, entry) ==
    [k \in DOMAIN m \cup {key} |-> IF k = key THEN entry ELSE m[k]]

\* DashMap::remove
DashMap_remove(m, key) == [k \in DOMAIN m \ {key} |-> m[k]]

\* Sodium::new
Sodium_new ==
    [storage |-> [k \in {} |-> CacheEntry_new("", 0)],
     total_operations |-> 0, hit_count |-> 0, miss_count |-> 0]

\* A set that keeps the entry of a key already present (entry().or_insert).
Sodium_set_keep_old(c, key, value, t) ==
    [cache |-> [c EXCEPT !.total_operations = @ + 1,
                         !.storage = IF key \in DOMAIN @ THEN @
                                     ELSE DashMap_insert(@, key, CacheEntry_new(value, t))],
     result |-> Ok(Unit)]

\* Sodium::set.  Each operation returns the store after it and its result.
Sodium_set(c, key, value, t) ==
    [cache |-> [c EXCEPT !.total_operations = @ + 1,
                         !.storage = DashMap_insert(@, key, CacheEntry_new(value, t))],
     result |-> Ok(Unit)]

\* A get that counts a hit as a miss as well.
Sodium_get_miss_counted_first(c, key, t) ==
    IF key \in DOMAIN c.storage
    THEN [cache |-> [c EXCEPT !.total_operations = @ + 1,
                              !.miss_count = @ + 1,
                              !.hit_count = @ + 1,
                              !.storage[key] = update_access_time(@, t)],
          result |-> Ok(StrV(c.storage[key].value))]
    ELSE [cache |-> [c EXCEPT !.total_operations = @ + 1,
                              !.miss_count = @ + 1],
          result |-> Err(KeyNotFound(key))]

\* Sodium::get
Sodium_get(c, key, t) ==
    IF key \in DOMAIN c.storage
    THEN [cache |-> [c EXCEPT !.total_operations = @ + 1,
                              !.hit_count = @ + 1,
                              !.storage[key] = update_access_time(@, t)],
          result |-> Ok(StrV(c.storage[key].value))]
    ELSE [cache |-> [c EXCEPT !.total_operations = @ + 1,
                              !.miss_count = @ + 1],
          result |-> Err(KeyNotFound(key))]

\* A delete that looks the key up after removing it.
Sodium_delete_late_lookup(c, key) ==
    [cache |-> [c EXCEPT !.total_operations = @ + 1,
                         !.storage = DashMap_remove(@, key)],
     result |-> Ok(BoolV(key \in DOMAIN DashMap_remove(c.storage, key)))]

\* Sodium::delete
Sodium_delete(c, key) ==
    [cache |-> [c EXCEPT !.total_operations = @ + 1,
                         !.storage = DashMap_remove(@, key)],
     result |-> Ok(BoolV(key \in DOMAIN c.storage))]

\* A keys that also lists the keys that were deleted.
Sodium_keys_unfiltered(c, order) ==
    [cache |-> [c EXCEPT !.total_operations = @ + 1],
     result |-> Ok(VecV(order))]

\* Sodium::keys; order is the order of the map's iteration.
Sodium_keys(c, order) ==
    [cache |-> [c EXCEPT !.total_operations = @ + 1],
     result |-> Ok(VecV(SelectSeq(order, LAMBDA k : k \in DOMAIN c.storage)))]

\* An execute_get that boxes the miss like any other error.
execute_get_miss_is_error(c, key, t) ==
    LET r == Sodium_get(c, key, t)
    IN  [cache |-> r.cache,
         result |-> IF r.result.ok THEN Ok(SomeV(r.result.val.v)) ELSE r.result]

\* execute_get: a miss is Ok(None).
execute_get(c, key, t) ==
    LET r == Sodium_get(c, key, t)
    IN  [cache |-> r.cache,
         result |-> IF r.result.ok THEN Ok(SomeV(r.result.val.v)) ELSE Ok(NoneV)]

\* An execute_set that refuses a key already present.
execute_set_rejects_existing(c, key, value, t) ==
    IF key \in DOMAIN c.storage
    THEN [cache |-> c, result |-> Err("Key exists: " \o key)]
    ELSE Sodium_set(c, key, value, t)

\* An execute_set that answers before the value is in the store, and never
\* puts it there.
execute_set_not_applied(c, key, value, t) ==
    [cache |-> [c EXCEPT !.total_operations = @ + 1], result |-> Ok(Unit)]

\* execute_set, execute_delete, execute_keys: the result with its error boxed.
execute_set(c, key, value, t) == Sodium_set(c, key, value, t)

execute_delete(c, key) == Sodium_delete(c, key)

execute_keys(c, order) == Sodium_keys(c, order)

\* ThreadPool::execute_task, the match on the task: the store after the
\* command and the result sent on the task's reply channel.
execute_task(c, cmd, t, order) ==
    CASE cmd.op = "Get" -> execute_get(c, cmd.key, t)
      [] cmd.op = "Set" -> execute_set(c, cmd.key, cmd.value, t)
      [] cmd.op = "Delete" -> execute_delete(c, cmd.key)
      [] cmd.op = "Keys" -> execute_keys(c, order)

(***************************************************************************)
(* The reply line: TcpApiServer::execute_command, given the result that    *)
(* threading::execute_cache_* returned.                                    *)
(***************************************************************************)
ErrorLine(e) == "ERROR: " \o e

execute_command(cmd, res) ==
    IF ~res.ok THEN ErrorLine(res.err)
    ELSE CASE cmd.op = "Set" -> "OK"
           [] cmd.op = "Get" ->
                IF res.val.kind = "some" THEN res.val.v ELSE "NULL"
           [] cmd.op = "Delete" -> IF res.val.b THEN "1" ELSE "0"
           [] cmd.op = "Keys" ->
                IF res.val.keys = <<>> THEN "(empty)" ELSE join(res.val.keys, " ")
           [] cmd.op = "Search" ->
                IF res.val.keys = <<>> THEN "(empty)" ELSE join(res.val.keys, " ")

(***************************************************************************)
(* SpecStore: requests served one at a time.                               *)
(***************************************************************************)
\* The key-to-value mapping of the store.
Mapping(c) == [k \in DOMAIN c.storage |-> c.storage[k].value]

\* No function is being called on its own.
NoCall == arg = <<>> /\ ret = <<>>

\* No thread is inside the store and no read guard is held.
NoRace ==
    /\ shard = [k \in Keys |-> {}]
    /\ thr = [t \in {} |-> <<>>]

\* No pool, no connection: the variables of Spec at rest.
NoPool ==
    /\ queues = [q \in {} |-> <<>>]
    /\ lock = [q \in {} |-> <<>>]
    /\ is_shutdown = [q \in {} |-> FALSE]
    /\ shutdown = FALSE
    /\ next_queue = 0
    /\ workers = [w \in {} |-> <<>>]
    /\ conns = [c \in {} |-> <<>>]
    /\ chan = [c \in {} |-> <<>>]
    /\ sd = 0
    /\ accepted = {}
    /\ rejected = {}
    /\ executed = [t \in {} |-> 0]

InitStore ==
    /\ NoRace
    /\ NoCall
    /\ budget = 0
    /\ cache = Sodium_new
    /\ now = 0
    /\ log = <<>>
    /\ queues = [q \in {} |-> <<>>]
    /\ lock = [q \in {} |-> <<>>]
    /\ is_shutdown = [q \in {} |-> FALSE]
    /\ shutdown = FALSE
    /\ next_queue = 0
    /\ workers = [w \in {} |-> <<>>]
    /\ conns = [c \in {} |-> <<>>]
    /\ chan = [c \in {} |-> <<>>]
    /\ sd = 0
    /\ accepted = {}
    /\ rejected = {}
    /\ executed = [t \in {} |-> 0]
    /\ recording = TRUE

\* One request, dispatched to a worker and executed with nothing in between.
Serve(cmd, order) ==
    /\ Len(log) < MaxOps
    /\ LET r == execute_task(cache, cmd, now, order)
       IN  /\ cache' = r.cache
           /\ log' = Append(log, [cmd |-> cmd,
                                  result |-> r.result,
                                  line |-> execute_command(cmd, r.result),
                                  before |-> Mapping(cache),
                                  after |-> Mapping(r.cache)])
    /\ UNCHANGED <<now, poolVars, connVars, histVars, recording, auxVars>>

\* The clock advances.
Tick ==
    /\ now < MaxTime
    /\ now' = now + 1
    /\ UNCHANGED <<cache, log, poolVars, connVars, histVars, recording, auxVars>>

NextStore ==
    \/ \E cmd \in Commands, order \in IterOrders : Serve(cmd, order)
    \/ Tick

SpecStore == InitStore /\ [][NextStore]_vars

(***************************************************************************)
(* What the history of served requests says, without the store: the last   *)
(* SET or DEL of a key before request i decides whether the key is live    *)
(* and with which value.                                                   *)
(***************************************************************************)
IsWrite(e, k) == e.cmd.op \in {"Set", "Delete"} /\ e.cmd.key = k

WritesBefore(i, k) == {j \in 1..(i - 1) : IsWrite(log[j], k)}

LastWrite(i, k) ==
    CHOOSE j \in WritesBefore(i, k) : \A j2 \in WritesBefore(i, k) : j2 <= j

Live(i, k) == WritesBefore(i, k) # {} /\ log[LastWrite(i, k)].cmd.op = "Set"

LiveValue(i, k) == log[LastWrite(i, k)].cmd.value

LiveKeys(i) == {k \in Keys : Live(i, k)}

Range(s) == {s[i] : i \in 1..Len(s)}

\* C1: a GET of k returns the value of the most recent SET of k that no DEL
\* of k has followed; in particular SET k v1; SET k v2; GET k yields v2.
C1_SetOverwrite ==
    \A i \in 1..Len(log) :
        (log[i].cmd.op = "Get" /\ Live(i, log[i].cmd.key))
            => log[i].line = LiveValue(i, log[i].cmd.key)

C1_Witness ==
    \E i \in 1..Len(log) :
        /\ i >= 3
        /\ log[i].cmd.op = "Get"
        /\ log[i - 1].cmd = CmdSet(log[i].cmd.key, "NULL")
        /\ log[i - 2].cmd = CmdSet(log[i].cmd.key, "v1")
        /\ log[i].line = "NULL"
        /\ log[i].result = Ok(SomeV("NULL"))

\* C2: a DEL of k answers 1 exactly when k was present, and removes k: after
\* SET k v, DEL k answers 1, a second DEL k at once answers 0, and a GET k
\* after that answers NULL.
C2_DelSemantics ==
    \A i \in 1..Len(log) :
        log[i].cmd.op = "Delete" =>
            /\ log[i].line = (IF Live(i, log[i].cmd.key) THEN "1" ELSE "0")
            /\ log[i].cmd.key \notin DOMAIN log[i].after
            /\ \A j \in (i + 1)..Len(log) :
                 (/\ log[j].cmd.op \in {"Get", "Delete"}
                  /\ log[j].cmd.key = log[i].cmd.key
                  /\ LastWrite(j, log[i].cmd.key) = i)
                    => log[j].line = (IF log[j].cmd.op = "Get" THEN "NULL" ELSE "0")

C2_Witness ==
    /\ Len(log) = 4
    /\ log[1].cmd = CmdSet("k1", "v1")
    /\ log[2].cmd = CmdDelete("k1") /\ log[2].line = "1"
    /\ log[3].cmd = CmdDelete("k1") /\ log[3].line = "0"
    /\ log[4].cmd = CmdGet("k1") /\ log[4].line = "NULL"

\* C3: with no concurrent access, KEYS returns exactly the live keys (those
\* SET and not DELeted since), each once.
C3_KeysMembership ==
    \A i \in 1..Len(log) :
        log[i].cmd.op = "Keys" =>
            /\ Range(log[i].result.val.keys) = LiveKeys(i)
            /\ Len(log[i].result.val.keys) = Cardinality(LiveKeys(i))

C3_Witness ==
    /\ Len(log) = 4
    /\ log[1].cmd.op = "Set" /\ log[2].cmd.op = "Set"
    /\ log[1].cmd.key # log[2].cmd.key
    /\ log[3].cmd = CmdDelete(log[1].cmd.key)
    /\ log[4].cmd.op = "Keys"
    /\ log[4].result.val.keys = <<log[2].cmd.key>>
    /\ log[4].line = log[2].cmd.key

\* C4: SET k v done twice leaves the key-to-value mapping that doing it once
\* left, a GET k after it yields v, and SET never reports a failure.
C4_SetIdempotent ==
    \A i \in 1..Len(log) :
        log[i].cmd.op = "Set" =>
            /\ log[i].line = "OK"
            /\ (i > 1 /\ log[i - 1].cmd = log[i].cmd) => log[i].after = log[i].before
            /\ (i < Len(log) /\ log[i + 1].cmd = CmdGet(log[i].cmd.key))
                    => log[i + 1].line = log[i].cmd.value

C4_Witness ==
    /\ Len(log) >= 3
    /\ log[1].cmd = CmdSet("k2", "v1")
    /\ log[2].cmd = CmdSet("k2", "v1")
    /\ log[2].after = log[1].after
    /\ log[3].cmd = CmdGet("k2") /\ log[3].line = "v1"

\* C5: a GET of an absent key is answered NULL and a DEL of an absent key is
\* answered 0, neither with an ERROR: line, and both leave the key-to-value
\* mapping as it was.
C5_MissIsNotAnError ==
    \A i \in 1..Len(log) :
        (log[i].cmd.op \in {"Get", "Delete"} /\ ~Live(i, log[i].cmd.key)) =>
            /\ log[i].line = (IF log[i].cmd.op = "Get" THEN "NULL" ELSE "0")
            /\ log[i].result.ok
            /\ log[i].after = log[i].before

C5_Witness ==
    /\ Len(log) >= 3
    /\ log[1].cmd = CmdSet("k1", "v1")
    /\ log[2].cmd = CmdGet("k2") /\ log[2].line = "NULL"
    /\ log[3].cmd = CmdDelete("k2") /\ log[3].line = "0"
    /\ Mapping(cache) = [k \in {"k1"} |-> "v1"]

(***************************************************************************)
(* The worker pool (server/threading.rs) and the connection tasks          *)
(* (server/api.rs).                                                        *)
(***************************************************************************)
Queues == 0..(NumQueues - 1)
Workers == Queues
Conns == 1..NumConns

\* Threads, as holders of a queue's mutex.
Free == <<"free", 0>>
WorkerThread(w) == <<"worker", w>>
ConnTask(c) == <<"conn", c>>

\* A request line: a line that parses to a command, or an empty line.
EmptyLine == [op |-> "Empty"]
\* The lines the connections of Spec send, and those of FairSpec.
PoolLines == {CmdSet("k1", "v1"), CmdGet("k1"), CmdDelete("k1"), EmptyLine}
FairLines == {CmdSet("k1", "v1"), CmdGet("k1")}

\* enum Task: the command and the sender of its reply channel, named by the
\* connection and the number of the request it answers.
Task(cmd, c, n) == [cmd |-> cmd, sender |-> <<c, n>>]

TasksOf(s) == {s[i] : i \in 1..Len(s)}

\* The texts of the errors of threading::execute_cache_*.
FailedToQueue == "Failed to queue task"
TaskExecutionFailed == "Task execution failed"

\* The histories and counters advance only in a behaviour that records them.
Inc(x) == IF recording THEN x + 1 ELSE x

\* Lines read so far by all the connections.
LinesRead == LET RECURSIVE Sum(_)
                 Sum(S) == IF S = {} THEN 0
                           ELSE LET c == CHOOSE c \in S : TRUE
                                IN  conns[c].lines + Sum(S \ {c})
             IN  Sum(Conns)

\* ThreadPool::new, WorkQueue::new, and the server before any connection
\* has sent a line.
PoolAtStart ==
    /\ NoRace
    /\ NoCall
    /\ cache = Sodium_new
    /\ now = 0
    /\ log = <<>>
    /\ queues = [q \in Queues |-> <<>>]
    /\ lock = [q \in Queues |-> Free]
    /\ is_shutdown = [q \in Queues |-> FALSE]
    /\ shutdown = FALSE
    /\ next_queue = 0
    /\ workers = [w \in Workers |-> [pc |-> "loop", task |-> <<>>, victim |-> 0]]
    /\ conns = [c \in Conns |->
                  [pc |-> "read", cmd |-> <<>>, queue |-> 0, res |-> <<>>,
                   lines |-> 0, reqs |-> 0, resps |-> 0, answered |-> 0,
                   out |-> "", why |-> ""]]
    /\ chan = [c \in Conns |-> <<>>]
    /\ sd = 0
    /\ accepted = {}
    /\ rejected = {}
    /\ executed = [t \in {} |-> 0]

InitPool == PoolAtStart /\ budget = MaxLines

Init == InitPool /\ recording = TRUE

(***************************************************************************)
(* The connection task: TcpApiServer::handle_client, one line at a time.   *)
(***************************************************************************)
\* A handle_client that reads the next line while the reply is awaited.
AtReadLine_without_await(c) == conns[c].pc \in {"read", "await"}

\* handle_client is at read_line: the reply to the line before is written.
AtReadLine(c) == conns[c].pc = "read"

\* ThreadPool::execute, its test of the pool's flag.
PoolRefuses == shutdown

\* A push that does not look at the queue's flag.
QueueRefuses_never(q) == FALSE

\* WorkQueue::push, its test of the queue's flag.
QueueRefuses(q) == is_shutdown[q]

\* The submission of connection c's request n failed: execute_cache_* returns
\* Err("Failed to queue task") and the task, never queued, is dropped.
Reject(c, n) == IF recording THEN rejected \cup {<<c, n>>} ELSE rejected

\* What made the submission fail, kept with the history.
Why(cause) == IF recording THEN cause ELSE ""

\* A submission that always picks the first queue.
queue_index_first(n) == 0

\* ThreadPool::execute: fetch_add(1) % self.queues.len(), n the value the
\* counter had.
queue_index(n) == n % NumQueues

\* handle_client reads a line.  An empty line is skipped.  A command goes to
\* execute_command and threading::execute_cache_*, which makes the reply
\* channel and calls ThreadPool::execute: false when the pool is shut down,
\* else the next queue is chosen round-robin.
handle_client_read(c, line) ==
    /\ AtReadLine(c)
    /\ recording => LinesRead < budget
    /\ IF line = EmptyLine
       THEN /\ conns' = [conns EXCEPT ![c].lines = Inc(@)]
            /\ UNCHANGED <<next_queue, chan, rejected>>
       ELSE /\ chan' = [chan EXCEPT ![c] = <<>>]
            /\ IF PoolRefuses
               THEN /\ conns' = [conns EXCEPT ![c].lines = Inc(@),
                                              ![c].reqs = Inc(@),
                                              ![c].cmd = <<line>>,
                                              ![c].pc = "write",
                                              ![c].why = Why("pool"),
                                              ![c].res = <<Err(FailedToQueue)>>]
                    /\ rejected' = Reject(c, Inc(conns[c].reqs))
                    /\ UNCHANGED next_queue
               ELSE /\ conns' = [conns EXCEPT ![c].lines = Inc(@),
                                              ![c].reqs = Inc(@),
                                              ![c].cmd = <<line>>,
                                              ![c].pc = "push",
                                              ![c].why = "",
                                              ![c].queue = queue_index(next_queue)]
                    /\ next_queue' = IF recording THEN next_queue + 1
                                     ELSE (next_queue + 1) % NumQueues
                    /\ UNCHANGED rejected
    /\ UNCHANGED <<storeVars, queues, lock, is_shutdown, shutdown, workers, sd,
                   accepted, executed, recording, auxVars>>

\* A push that leaves the task on the queue when it reports failure.
WorkQueue_push_queues_on_failure(c) ==
    /\ conns[c].pc = "push"
    /\ LET q == conns[c].queue
       IN  IF is_shutdown[q] \/ lock[q] # Free
           THEN /\ conns' = [conns EXCEPT ![c].pc = "write",
                                          ![c].queue = 0,
                                          ![c].why = Why("lock"),
                                          ![c].res = <<Err(FailedToQueue)>>]
                /\ rejected' = Reject(c, conns[c].reqs)
                /\ queues' = [queues EXCEPT ![q] =
                                 Append(@, Task(conns[c].cmd[1], c, conns[c].reqs))]
                /\ UNCHANGED lock
           ELSE /\ lock' = [lock EXCEPT ![q] = ConnTask(c)]
                /\ conns' = [conns EXCEPT ![c].pc = "pushing"]
                /\ UNCHANGED <<rejected, queues>>
    /\ UNCHANGED <<storeVars, is_shutdown, shutdown, next_queue, workers,
                   chan, sd, accepted, executed, recording, auxVars>>

\* WorkQueue::push up to the try_lock: false when the queue is shut down or
\* its mutex is held.
WorkQueue_push(c) ==
    /\ conns[c].pc = "push"
    /\ LET q == conns[c].queue
       IN  IF QueueRefuses(q) \/ lock[q] # Free
           THEN /\ conns' = [conns EXCEPT ![c].pc = "write",
                                          ![c].queue = 0,
                                          ![c].why = Why(IF QueueRefuses(q) THEN "queue"
                                                         ELSE "lock"),
                                          ![c].res = <<Err(FailedToQueue)>>]
                /\ rejected' = Reject(c, conns[c].reqs)
                /\ UNCHANGED lock
           ELSE /\ lock' = [lock EXCEPT ![q] = ConnTask(c)]
                /\ conns' = [conns EXCEPT ![c].pc = "pushing"]
                /\ UNCHANGED rejected
    /\ UNCHANGED <<storeVars, queues, is_shutdown, shutdown, next_queue, workers,
                   chan, sd, accepted, executed, recording, auxVars>>

\* WorkQueue::push under the lock: push_back, and the guard is dropped.
\* ThreadPool::execute returns true and the connection awaits the receiver.
WorkQueue_push_back(c) ==
    /\ conns[c].pc = "pushing"
    /\ LET q == conns[c].queue
           task == Task(conns[c].cmd[1], c, conns[c].reqs)
       IN  /\ queues' = [queues EXCEPT ![q] = Append(@, task)]
           /\ lock' = [lock EXCEPT ![q] = Free]
           /\ accepted' = IF recording THEN accepted \cup {task.sender} ELSE accepted
    /\ conns' = [conns EXCEPT ![c].pc = "await", ![c].queue = 0]
    /\ UNCHANGED <<storeVars, is_shutdown, shutdown, next_queue, workers, chan, sd,
                   rejected, executed, recording, auxVars>>

\* The result execute_command has in hand: the one received on the reply
\* channel, or the error of a failed submission.
ReplyReady(c) ==
    \/ conns[c].pc = "write"
    \/ conns[c].pc = "await" /\ chan[c] # <<>>

ReplyOf(c) == IF conns[c].pc = "write" THEN conns[c].res[1] ELSE chan[c][1].result

\* The request the result in hand was computed for.
ReplyFor(c) == IF conns[c].pc = "write" THEN conns[c].reqs ELSE chan[c][1].sender[2]

\* receiver.await returns, execute_command formats the reply and
\* handle_client writes the line; then it reads again.
handle_client_write(c) ==
    /\ ReplyReady(c)
    /\ conns' = [conns EXCEPT ![c].pc = "read",
                              ![c].cmd = <<>>,
                              ![c].res = <<>>,
                              ![c].resps = Inc(@),
                              ![c].answered = ReplyFor(c),
                              ![c].out = IF recording
                                         THEN execute_command(conns[c].cmd[1], ReplyOf(c))
                                         ELSE ""]
    /\ chan' = [chan EXCEPT ![c] = <<>>]
    /\ UNCHANGED <<storeVars, poolVars, histVars, recording, auxVars>>

(***************************************************************************)
(* A worker thread: ThreadPool::worker_loop.                               *)
(***************************************************************************)
\* The first queue from index i on that is not the worker's own, or
\* NumQueues when the scan of the queues is over.
NextVictim(w, i) ==
    LET rest == {j \in Queues : j >= i /\ j # w}
    IN  IF rest = {} THEN NumQueues
        ELSE CHOOSE j \in rest : \A j2 \in rest : j <= j2

\* The worker goes on to steal, starting the scan at queue i; when the scan
\* is over without work it sleeps and goes back to the loop's test.
ScanFrom(w, i) ==
    IF NextVictim(w, i) = NumQueues
    THEN [workers EXCEPT ![w].pc = "loop", ![w].victim = 0]
    ELSE [workers EXCEPT ![w].pc = "steal", ![w].victim = NextVictim(w, i)]

\* A worker whose loop never tests the pool's flag.
worker_loop_test_never_exits(w) ==
    /\ workers[w].pc = "loop"
    /\ workers' = [workers EXCEPT ![w].pc = "pop"]
    /\ UNCHANGED <<storeVars, queues, lock, is_shutdown, shutdown, next_queue, sd,
                   connVars, histVars, recording, auxVars>>

\* while !shutdown.load(): the worker leaves the loop when the flag is set.
worker_loop_test(w) ==
    /\ workers[w].pc = "loop"
    /\ workers' = [workers EXCEPT ![w].pc = IF shutdown THEN "exited" ELSE "pop"]
    /\ UNCHANGED <<storeVars, queues, lock, is_shutdown, shutdown, next_queue, sd,
                   connVars, histVars, recording, auxVars>>

\* my_queue.pop() up to the try_lock: None when the mutex is held.
WorkQueue_pop(w) ==
    /\ workers[w].pc = "pop"
    /\ IF lock[w] = Free
       THEN /\ lock' = [lock EXCEPT ![w] = WorkerThread(w)]
            /\ workers' = [workers EXCEPT ![w].pc = "popping"]
       ELSE /\ workers' = ScanFrom(w, 0)
            /\ UNCHANGED lock
    /\ UNCHANGED <<storeVars, queues, is_shutdown, shutdown, next_queue, sd,
                   connVars, histVars, recording, auxVars>>

\* A pop whose guard lives on while the task it returned is executed.
WorkQueue_pop_front_keeps_guard(w) ==
    /\ workers[w].pc = "popping"
    /\ IF queues[w] # <<>>
       THEN /\ workers' = [workers EXCEPT ![w].pc = "exec",
                                          ![w].task = <<Head(queues[w])>>]
            /\ queues' = [queues EXCEPT ![w] = Tail(@)]
            /\ UNCHANGED lock
       ELSE /\ workers' = ScanFrom(w, 0)
            /\ lock' = [lock EXCEPT ![w] = Free]
            /\ UNCHANGED queues
    /\ UNCHANGED <<storeVars, is_shutdown, shutdown, next_queue, sd, connVars,
                   histVars, recording, auxVars>>

\* my_queue.pop() under the lock: pop_front, and the guard is dropped.
WorkQueue_pop_front(w) ==
    /\ workers[w].pc = "popping"
    /\ lock' = [lock EXCEPT ![w] = Free]
    /\ IF queues[w] # <<>>
       THEN /\ workers' = [workers EXCEPT ![w].pc = "exec",
                                          ![w].task = <<Head(queues[w])>>]
            /\ queues' = [queues EXCEPT ![w] = Tail(@)]
       ELSE /\ workers' = ScanFrom(w, 0)
            /\ UNCHANGED queues
    /\ UNCHANGED <<storeVars, is_shutdown, shutdown, next_queue, sd, connVars,
                   histVars, recording, auxVars>>

\* queue.steal() on the next victim up to the try_lock: None when the mutex
\* is held, and the scan goes on.
WorkQueue_steal(w) ==
    /\ workers[w].pc = "steal"
    /\ LET v == workers[w].victim
       IN  IF lock[v] = Free
           THEN /\ lock' = [lock EXCEPT ![v] = WorkerThread(w)]
                /\ workers' = [workers EXCEPT ![w].pc = "stealing"]
           ELSE /\ workers' = ScanFrom(w, v + 1)
                /\ UNCHANGED lock
    /\ UNCHANGED <<storeVars, queues, is_shutdown, shutdown, next_queue, sd,
                   connVars, histVars, recording, auxVars>>

\* A steal that takes a copy of the last task and leaves it on the queue.
WorkQueue_steal_back_keeps_task(w) ==
    /\ workers[w].pc = "stealing"
    /\ LET v == workers[w].victim
       IN  /\ lock' = [lock EXCEPT ![v] = Free]
           /\ IF queues[v] # <<>>
              THEN /\ workers' = [workers EXCEPT ![w].pc = "exec",
                                                 ![w].task = <<queues[v][Len(queues[v])]>>,
                                                 ![w].victim = 0]
              ELSE /\ workers' = ScanFrom(w, v + 1)
    /\ UNCHANGED <<storeVars, queues, is_shutdown, shutdown, next_queue, sd, connVars,
                   histVars, recording, auxVars>>

\* queue.steal() under the lock: pop_back, and the guard is dropped.
WorkQueue_steal_back(w) ==
    /\ workers[w].pc = "stealing"
    /\ LET v == workers[w].victim
       IN  /\ lock' = [lock EXCEPT ![v] = Free]
           /\ IF queues[v] # <<>>
              THEN /\ workers' = [workers EXCEPT ![w].pc = "exec",
                                                 ![w].task = <<queues[v][Len(queues[v])]>>,
                                                 ![w].victim = 0]
                   /\ queues' = [queues EXCEPT ![v] = SubSeq(@, 1, Len(@) - 1)]
              ELSE /\ workers' = ScanFrom(w, v + 1)
                   /\ UNCHANGED queues
    /\ UNCHANGED <<storeVars, is_shutdown, shutdown, next_queue, sd, connVars,
                   histVars, recording, auxVars>>

\* sender.send(result): the result reaches the reply channel when its
\* receiver is still awaited, and is discarded otherwise.
Send(ch, task, result) ==
    LET c == task.sender[1]
    IN  IF conns[c].pc = "await" /\ conns[c].reqs = task.sender[2]
        THEN [ch EXCEPT ![c] = Append(@, [sender |-> task.sender, result |-> result])]
        ELSE ch

\* The store without its advisory counters, for a behaviour that does not
\* record them.
Counted(c) ==
    IF recording THEN c
    ELSE [c EXCEPT !.total_operations = 0, !.hit_count = 0, !.miss_count = 0]

\* An execute_task that unwraps the result of sender.send: the worker thread
\* panics when the receiver is gone.
worker_execute_task_unwrap_send(w, order) ==
    /\ workers[w].pc = "exec"
    /\ LET task == workers[w].task[1]
           r == execute_task(cache, task.cmd, now, order)
       IN  /\ cache' = Counted(r.cache)
           /\ chan' = Send(chan, task, r.result)
           /\ executed' =
                IF recording
                THEN [t \in DOMAIN executed \cup {task.sender} |->
                        IF t = task.sender
                        THEN (IF t \in DOMAIN executed THEN executed[t] + 1 ELSE 1)
                        ELSE executed[t]]
                ELSE executed
           /\ workers' = [workers EXCEPT
                            ![w].pc = IF Send(chan, task, r.result) = chan
                                      THEN "exited" ELSE "loop",
                            ![w].task = <<>>]
    /\ UNCHANGED <<now, log, queues, lock, is_shutdown, shutdown, next_queue, sd,
                   conns, accepted, rejected, recording, auxVars>>

\* ThreadPool::execute_task: the command runs against the store and the
\* result is sent; the worker goes back to the loop's test.
worker_execute_task(w, order) ==
    /\ workers[w].pc = "exec"
    /\ LET task == workers[w].task[1]
           r == execute_task(cache, task.cmd, now, order)
       IN  /\ cache' = Counted(r.cache)
           /\ chan' = Send(chan, task, r.result)
           /\ executed' =
                IF recording
                THEN [t \in DOMAIN executed \cup {task.sender} |->
                        IF t = task.sender
                        THEN (IF t \in DOMAIN executed THEN executed[t] + 1 ELSE 1)
                        ELSE executed[t]]
                ELSE executed
    /\ workers' = [workers EXCEPT ![w].pc = "loop", ![w].task = <<>>]
    /\ UNCHANGED <<now, log, queues, lock, is_shutdown, shutdown, next_queue, sd,
                   conns, accepted, rejected, recording, auxVars>>

(***************************************************************************)
(* ThreadPool::shutdown: the pool's flag, then each queue's flag in turn.  *)
(***************************************************************************)
ThreadPool_shutdown ==
    /\ sd <= NumQueues
    /\ sd' = sd + 1
    /\ IF sd = 0
       THEN /\ shutdown' = TRUE
            /\ UNCHANGED is_shutdown
       ELSE /\ is_shutdown' = [is_shutdown EXCEPT ![sd - 1] = TRUE]
            /\ UNCHANGED shutdown
    /\ UNCHANGED <<storeVars, queues, lock, next_queue, workers, connVars, histVars,
                   recording, auxVars>>

\* ThreadPool::shutdown has returned.
ShutdownDone == sd = NumQueues + 1

ConnStep(c) ==
    \/ WorkQueue_push(c)
    \/ WorkQueue_push_back(c)
    \/ handle_client_write(c)

WorkerStep(w) ==
    \/ worker_loop_test(w)
    \/ WorkQueue_pop(w)
    \/ WorkQueue_pop_front(w)
    \/ WorkQueue_steal(w)
    \/ WorkQueue_steal_back(w)
    \/ \E order \in IterOrders : worker_execute_task(w, order)

Next ==
    \/ \E c \in Conns, line \in PoolLines : handle_client_read(c, line)
    \/ \E c \in Conns : ConnStep(c)
    \/ \E w \in Workers : WorkerStep(w)
    \/ ThreadPool_shutdown

Spec == Init /\ [][Next]_vars

(***************************************************************************)
(* FairSpec: connections that go on sending lines, histories not recorded, *)
(* and every thread that can take a step eventually takes one.  A client   *)
(* need not send another line and nobody need call shutdown.               *)
(***************************************************************************)
InitFair == InitPool /\ recording = FALSE

NextFair ==
    \/ \E c \in Conns, line \in FairLines : handle_client_read(c, line)
    \/ \E c \in Conns : ConnStep(c)
    \/ \E w \in Workers : WorkerStep(w)
    \/ ThreadPool_shutdown

Fairness ==
    /\ \A c \in Conns : WF_vars(ConnStep(c))
    /\ \A w \in Workers : WF_vars(WorkerStep(w))

FairSpec == InitFair /\ [][NextFair]_vars /\ Fairness

(***************************************************************************)
(* Claims about the pool and the connections.                              *)
(***************************************************************************)
\* The tasks of connection c that sit in a queue or in a worker's hands.
QueuedTasks(c) ==
    UNION {{<<q, i>> : i \in {j \in DOMAIN queues[q] : queues[q][j].sender[1] = c}} :
             q \in Queues}

HeldTasks(c) ==
    {w \in Workers : workers[w].task # <<>> /\ workers[w].task[1].sender[1] = c}

InFlight(c) == Cardinality(QueuedTasks(c)) + Cardinality(HeldTasks(c))

\* C6: on a connection the replies are written one per non-empty request
\* line, in the order of the lines: the reply written last answers the
\* request read last, an empty line gets no reply, and the next line is read
\* only after the reply is written, so that at most one task of a connection
\* is in the pool at any time.
C6_Pipelined ==
    \A c \in Conns :
        /\ conns[c].reqs <= conns[c].lines
        /\ conns[c].resps = (IF conns[c].pc = "read" THEN conns[c].reqs
                             ELSE conns[c].reqs - 1)
        /\ conns[c].resps > 0 => conns[c].answered = conns[c].resps
        /\ InFlight(c) <= 1
        /\ conns[c].pc = "read" => InFlight(c) = 0
        /\ \A qi \in QueuedTasks(c) :
              queues[qi[1]][qi[2]].sender = <<c, conns[c].reqs>>
        /\ \A w \in HeldTasks(c) : workers[w].task[1].sender = <<c, conns[c].reqs>>

C6_Witness ==
    \E c \in Conns :
        /\ conns[c].pc = "read"
        /\ conns[c].lines = 3 /\ conns[c].reqs = 2
        /\ conns[c].resps = 2 /\ conns[c].answered = 2
        /\ <<c, 1>> \in DOMAIN executed /\ <<c, 2>> \in DOMAIN executed
        /\ conns[c].out = "v1"

\* A thread other than connection c holds the mutex of queue q.
HeldByAnother(q, c) == lock[q] \notin {Free, ConnTask(c)}

\* The submission of a request of c fails in this step.
Fails(c) == \E n \in 1..MaxLines : <<c, n>> \in rejected' \ rejected

\* C7: submission does not block; it fails only if the pool is shut down or
\* another thread holds the chosen queue's lock at that instant; a task whose
\* submission failed is on no queue and is never executed, the failing
\* submission leaves the store as it was, and the client is sent exactly the
\* line ERROR: Failed to queue task.
C7_FailedSubmission ==
    /\ [](\A c \in Conns :
            /\ conns[c].pc = "push" => ENABLED WorkQueue_push(c)
            /\ conns[c].pc = "pushing" => ENABLED WorkQueue_push_back(c)
            /\ \A n \in 1..MaxLines :
                 <<c, n>> \in rejected =>
                    /\ <<c, n>> \notin DOMAIN executed
                    /\ <<c, n>> \notin accepted
                    /\ \A q \in Queues : \A t \in TasksOf(queues[q]) : t.sender # <<c, n>>
                    /\ \A w \in Workers :
                         workers[w].task # <<>> => workers[w].task[1].sender # <<c, n>>
                    /\ (conns[c].pc = "read" /\ conns[c].reqs = n)
                            => conns[c].out = "ERROR: Failed to queue task")
    /\ [][\A c \in Conns :
            Fails(c) =>
                /\ \/ shutdown
                   \/ conns[c].pc = "push" /\ HeldByAnother(conns[c].queue, c)
                /\ UNCHANGED <<cache, queues>>]_vars

C7_Witness ==
    \E c1, c2 \in Conns :
        /\ conns[c1].why = "lock" /\ conns[c1].pc = "read"
        /\ conns[c1].out = "ERROR: Failed to queue task"
        /\ conns[c2].why = "pool" /\ conns[c2].pc = "read"
        /\ conns[c2].out = "ERROR: Failed to queue task"
        /\ DOMAIN executed # {}

\* C10 as stated: once ThreadPool::shutdown has set the pool's flag and every
\* queue's flag, no task is appended to any queue.
C10_NoAppendAfterShutdown ==
    [][ShutdownDone => \A q \in Queues : Len(queues'[q]) <= Len(queues[q])]_vars

\* C10 as amended: a submission that finds the pool's flag set fails in
\* ThreadPool::execute, and a push that finds its queue's flag set fails in
\* WorkQueue::push: neither takes a lock nor appends a task.  (A push that
\* took the queue's lock before the flag was set still appends.)
C10_SubmissionAfterFlagFails ==
    [][\A c \in Conns :
         /\ (conns[c].pc = "read" /\ shutdown /\ conns'[c].pc # "read")
                => /\ conns'[c].pc = "write"
                   /\ conns'[c].res = <<Err(FailedToQueue)>>
                   /\ UNCHANGED <<queues, lock, next_queue>>
         /\ (conns[c].pc = "push" /\ is_shutdown[conns[c].queue] /\ conns'[c].pc # "push")
                => /\ conns'[c].pc = "write"
                   /\ conns'[c].res = <<Err(FailedToQueue)>>
                   /\ UNCHANGED <<queues, lock>>]_vars

C10_Witness ==
    /\ ShutdownDone
    /\ \E c1, c2 \in Conns :
        /\ conns[c1].why = "pool" /\ conns[c1].out = "ERROR: Failed to queue task"
        /\ conns[c2].why = "queue" /\ conns[c2].out = "ERROR: Failed to queue task"

\* C8: every task accepted by submission has exactly one result delivered on
\* its reply channel: while the pool is running the connection awaiting the
\* reply eventually receives a result, and the channel never holds more than
\* one.
C8_ExactlyOneResult ==
    /\ \A c \in Conns : (conns[c].pc = "await") ~> (conns[c].pc = "read" \/ shutdown)
    /\ [](\A c \in Conns : Len(chan[c]) <= 1)

\* C9: while the pool is running, a task that sits in a queue is eventually
\* popped by the queue's owner or stolen, and executed, whatever the other
\* connections submit and are served.
C9_NoStarvation ==
    \A c \in Conns : (QueuedTasks(c) # {}) ~> (chan[c] # <<>> \/ shutdown)

(***************************************************************************)
(* SpecRace: two threads inside the store at once.  Sodium::get holds the  *)
(* read guard DashMap::get returns from the lookup to the end of its       *)
(* if-let; DashMap::insert and DashMap::remove take the shard's write      *)
(* lock, which waits for the read guards to be dropped.  Each key is given *)
(* a shard of its own, the case with the least waiting.                    *)
(***************************************************************************)
Racers == 1..2

\* The commands the first and the second thread execute.
RaceReads == {CmdGet(k) : k \in Keys}
RaceWrites == {CmdDelete(k) : k \in Keys} \cup {CmdSet(k, v) : k \in Keys, v \in Values}

\* What a read through a reference to an entry that is gone may yield.
Torn == {"", "v"}

InitRace ==
    /\ NoPool
    /\ NoCall
    /\ budget = 0
    /\ log = <<>>
    /\ recording = TRUE
    /\ now \in 0..MaxTime
    /\ \E D \in SUBSET Keys : \E f \in [D -> Values] :
          cache = [storage |-> [k \in D |-> CacheEntry_new(f[k], 0)],
                   total_operations |-> 0, hit_count |-> 0, miss_count |-> 0]
    /\ shard = [k \in Keys |-> {}]
    /\ \E r \in RaceReads, w \in RaceWrites :
          thr = [t \in Racers |->
                   [cmd |-> IF t = 1 THEN r ELSE w, pc |-> "start",
                    found |-> cache, result |-> <<>>, overlap |-> FALSE]]

\* A write lock that does not wait for the read guards.
WriteLockable_with_readers(k) == TRUE

\* RwLock::write on the shard of k can be taken: no read guard is out.
WriteLockable(k) == shard[k] = {}

\* The thread is between its first step and its return.
Inside(t) == thr[t].pc \notin {"start", "done"}

\* total_operations.fetch_add, the first statement of get, set and delete.
Sodium_count(t) ==
    /\ thr[t].pc = "start"
    /\ cache' = [cache EXCEPT !.total_operations = @ + 1]
    /\ thr' = [u \in Racers |->
                IF u = t
                THEN [thr[u] EXCEPT !.pc = CASE thr[t].cmd.op = "Get" -> "lookup"
                                            [] thr[t].cmd.op = "Set" -> "insert"
                                            [] thr[t].cmd.op = "Delete" -> "remove",
                                    !.found = cache,
                                    !.overlap = \E o \in Racers \ {t} : Inside(o)]
                ELSE [thr[u] EXCEPT !.overlap = @ \/ Inside(u)]]
    /\ UNCHANGED <<now, log, poolVars, connVars, histVars, recording, shard,
                   budget, arg, ret>>

\* DashMap::get: the lookup; a hit returns a read guard on the shard.
DashMap_get(t) ==
    /\ thr[t].pc = "lookup"
    /\ LET k == thr[t].cmd.key
       IN  IF k \in DOMAIN cache.storage
           THEN /\ shard' = [shard EXCEPT ![k] = @ \cup {t}]
                /\ thr' = [thr EXCEPT ![t].pc = "hit"]
           ELSE /\ thr' = [thr EXCEPT ![t].pc = "miss"]
                /\ UNCHANGED shard
    /\ UNCHANGED <<cache, now, log, poolVars, connVars, histVars, recording, budget, arg, ret>>

\* Sodium::get, the hit: update_access_time and hit_count.fetch_add through
\* the guard.
Sodium_get_hit(t) ==
    /\ thr[t].pc = "hit"
    /\ LET k == thr[t].cmd.key
       IN  cache' = [cache EXCEPT
                        !.hit_count = @ + 1,
                        !.storage = IF k \in DOMAIN @
                                    THEN [@ EXCEPT ![k] = update_access_time(@, now)]
                                    ELSE @]
    /\ thr' = [thr EXCEPT ![t].pc = "clone"]
    /\ UNCHANGED <<now, log, poolVars, connVars, histVars, recording, shard,
                   budget, arg, ret>>

\* Sodium::get, entry.value.clone() and the drop of the guard; execute_get
\* wraps the value in Ok(Some).  A guard that no longer protects its entry
\* reads whatever is there.
Sodium_get_clone(t) ==
    /\ thr[t].pc = "clone"
    /\ LET k == thr[t].cmd.key
       IN  /\ \E v \in (IF k \in DOMAIN cache.storage
                        THEN {cache.storage[k].value} ELSE Torn) :
                 thr' = [thr EXCEPT ![t].pc = "done", ![t].result = <<Ok(SomeV(v))>>]
           /\ shard' = [shard EXCEPT ![k] = @ \ {t}]
    /\ UNCHANGED <<cache, now, log, poolVars, connVars, histVars, recording, budget, arg, ret>>

\* Sodium::get, the miss: miss_count.fetch_add; execute_get answers Ok(None).
Sodium_get_miss(t) ==
    /\ thr[t].pc = "miss"
    /\ cache' = [cache EXCEPT !.miss_count = @ + 1]
    /\ thr' = [thr EXCEPT ![t].pc = "done", ![t].result = <<Ok(NoneV)>>]
    /\ UNCHANGED <<now, log, poolVars, connVars, histVars, recording, shard,
                   budget, arg, ret>>

\* Sodium::delete, storage.remove(key) under the shard's write lock.
Sodium_delete_remove(t) ==
    /\ thr[t].pc = "remove"
    /\ LET k == thr[t].cmd.key
       IN  /\ WriteLockable(k)
           /\ cache' = [cache EXCEPT !.storage = DashMap_remove(@, k)]
           /\ thr' = [thr EXCEPT ![t].pc = "done",
                                 ![t].result = <<Ok(BoolV(k \in DOMAIN cache.storage))>>]
    /\ UNCHANGED <<now, log, poolVars, connVars, histVars, recording, shard,
                   budget, arg, ret>>

\* Sodium::set, CacheEntry::new and storage.insert under the shard's write
\* lock.
Sodium_set_insert(t) ==
    /\ thr[t].pc = "insert"
    /\ LET k == thr[t].cmd.key
       IN  /\ WriteLockable(k)
           /\ cache' = [cache EXCEPT !.storage =
                          DashMap_insert(@, k, CacheEntry_new(thr[t].cmd.value, now))]
           /\ thr' = [thr EXCEPT ![t].pc = "done", ![t].result = <<Ok(Unit)>>]
    /\ UNCHANGED <<now, log, poolVars, connVars, histVars, recording, shard,
                   budget, arg, ret>>

RaceStep(t) ==
    \/ Sodium_count(t)
    \/ DashMap_get(t)
    \/ Sodium_get_hit(t)
    \/ Sodium_get_clone(t)
    \/ Sodium_get_miss(t)
    \/ Sodium_delete_remove(t)
    \/ Sodium_set_insert(t)

NextRace == \E t \in Racers : RaceStep(t)

SpecRace == InitRace /\ [][NextRace]_vars

\* The GET and the DEL of the same key k, run at the same time against a
\* store that held value v under k.
GetDelRace(k, v) ==
    /\ thr[1].cmd = CmdGet(k) /\ thr[2].cmd = CmdDelete(k)
    /\ thr[1].overlap /\ thr[2].overlap
    /\ k \in DOMAIN thr[1].found.storage /\ thr[1].found.storage[k].value = v
    /\ k \in DOMAIN thr[2].found.storage

\* C11: a GET that runs at the same time as a DEL of the same key either
\* hits and returns the whole value stored before the DEL, or misses; it
\* returns nothing else, the DEL answers 1 either way and the key is gone
\* when both have returned.
C11_GetDelRace ==
    \A k \in Keys, v \in Values :
        GetDelRace(k, v) =>
            /\ thr[1].pc = "done" => thr[1].result[1] \in {Ok(SomeV(v)), Ok(NoneV)}
            /\ thr[2].pc = "done" =>
                  /\ thr[2].result[1] = Ok(BoolV(TRUE))
                  /\ execute_command(thr[2].cmd, thr[2].result[1]) = "1"
                  /\ k \notin DOMAIN cache.storage
            /\ thr[1].pc \in {"hit", "clone"} => k \in DOMAIN cache.storage

\* The hit-then-deleted outcome: the DEL waited for the GET's guard.
C11_Witness ==
    /\ GetDelRace("k1", "v1")
    /\ thr[1].pc = "done" /\ thr[2].pc = "done"
    /\ thr[1].result[1] = Ok(SomeV("v1"))
    /\ thr[2].result[1] = Ok(BoolV(TRUE))

(***************************************************************************)
(* SpecClients: every connection is a client that sends PerClient SETs and *)
(* then PerClient GETs of the same keys, its keys being its own.  Nobody   *)
(* calls shutdown.                                                         *)
(***************************************************************************)
\* All clients writing one key.
ClientKey_shared(c, i) == "key"

\* The i-th key and value of client c.
ClientKey(c, i) == "key" \o ToString(c) \o "_" \o ToString(i)
ClientValue(c, i) == "val" \o ToString(c) \o "_" \o ToString(i)

\* The n-th line client c sends.
ClientLine(c, n) ==
    IF n <= PerClient THEN CmdSet(ClientKey(c, n), ClientValue(c, n))
    ELSE CmdGet(ClientKey(c, n - PerClient))

InitClients ==
    /\ PoolAtStart
    /\ budget = NumConns * 2 * PerClient
    /\ recording = TRUE

client_send(c) ==
    /\ conns[c].lines < 2 * PerClient
    /\ handle_client_read(c, ClientLine(c, conns[c].lines + 1))

NextClients ==
    \/ \E c \in Conns : client_send(c)
    \/ \E c \in Conns : ConnStep(c)
    \/ \E w \in Workers : WorkerStep(w)

SpecClients == InitClients /\ [][NextClients]_vars

\* Every client has the reply to its last line.
Quiescent == \A c \in Conns : conns[c].pc = "read" /\ conns[c].lines = 2 * PerClient

\* Connection c writes the reply to its n-th request in this step.
Replies(c, n) == conns[c].pc # "read" /\ conns'[c].pc = "read" /\ conns[c].reqs = n

\* C12 as stated: every GET is answered the value its paired SET wrote, and
\* once every client has all its replies total_operations is at least
\* 2 * N * M.
C12_PairedGets ==
    /\ [][\A c \in Conns : \A i \in 1..PerClient :
            Replies(c, PerClient + i) => conns'[c].out = ClientValue(c, i)]_vars
    /\ [](Quiescent => cache.total_operations >= 2 * NumConns * PerClient)

\* C12 as amended: a GET that was executed is answered the value of its
\* paired SET if that SET was executed and NULL if its submission was
\* refused; a refused GET is answered the dispatch error; and once every
\* client has all its replies total_operations is the number of requests
\* executed, 2 * N * M less the requests refused.
C12_PairedGetsOfExecuted ==
    /\ [][\A c \in Conns : \A i \in 1..PerClient :
            Replies(c, PerClient + i) =>
                conns'[c].out =
                    IF <<c, PerClient + i>> \in rejected THEN ErrorLine(FailedToQueue)
                    ELSE IF <<c, i>> \in rejected THEN "NULL"
                    ELSE ClientValue(c, i)]_vars
    /\ [](Quiescent =>
            /\ cache.total_operations = Cardinality(DOMAIN executed)
            /\ cache.total_operations =
                  2 * NumConns * PerClient - Cardinality(rejected)
            /\ \A c \in Conns : \A i \in 1..PerClient :
                  <<c, i>> \notin rejected =>
                     /\ ClientKey(c, i) \in DOMAIN cache.storage
                     /\ cache.storage[ClientKey(c, i)].value = ClientValue(c, i))

\* Every request was executed, and every client has its value.
C12_Witness ==
    /\ Quiescent
    /\ rejected = {}
    /\ cache.total_operations = 2 * NumConns * PerClient
    /\ \A c \in Conns : conns[c].out = ClientValue(c, PerClient)

(***************************************************************************)
(* SpecReply: TcpApiServer::execute_command of sodium-server/api.rs on     *)
(* every command and every result threading::execute_cache_* may return,   *)
(* and the line handle_client writes.                                      *)
(***************************************************************************)
\* enum SearchType
SearchTypes == {"Key", "Value", "KeyOrValue", "KeyAndValue"}

\* Key lists a KEYS or a SEARCH may return.
KeyLists == UNION {Arrangements(S) : S \in SUBSET Keys}

\* The errors threading::execute_cache_* returns.
TaskErrors == {FailedToQueue, TaskExecutionFailed}

\* A command and a result of its type.
ReplyInputs ==
    {<<CmdSet(k, v), r>> : k \in Keys, v \in Values,
                           r \in {Ok(Unit)} \cup {Err(e) : e \in TaskErrors}}
      \cup {<<CmdGet(k), r>> : k \in Keys,
               r \in {Ok(SomeV(v)) : v \in Values} \cup {Ok(NoneV)}
                        \cup {Err(e) : e \in TaskErrors}}
      \cup {<<CmdDelete(k), r>> : k \in Keys,
               r \in {Ok(BoolV(b)) : b \in BOOLEAN} \cup {Err(e) : e \in TaskErrors}}
      \cup {<<cmd, r>> :
               cmd \in {CmdKeys} \cup {CmdSearch(t, <<q>>) : t \in SearchTypes,
                                                           q \in {"k", "v1"}},
               r \in {Ok(VecV(l)) : l \in KeyLists} \cup {Err(e) : e \in TaskErrors}}

\* Everything but the arguments of the call at rest.
AtRest ==
    /\ NoPool
    /\ NoRace
    /\ budget = 0
    /\ cache = Sodium_new
    /\ now = 0
    /\ log = <<>>
    /\ recording = TRUE

InitReply ==
    /\ AtRest
    /\ arg \in ReplyInputs
    /\ ret = <<>>

\* format!("{}\n", response)
response_with_newline(response) == response \o "\n"

\* execute_command returns and handle_client formats the line it writes.
handle_client_respond ==
    /\ ret = <<>>
    /\ ret' = <<response_with_newline(execute_command(arg[1], arg[2]))>>
    /\ UNCHANGED <<storeVars, poolVars, connVars, histVars, recording, shard, thr,
                   budget, arg>>

SpecReply == InitReply /\ [][handle_client_respond]_vars

\* The keys separated by single spaces, written out for up to two keys.
Spaced(l) ==
    CASE Len(l) = 1 -> l[1]
      [] Len(l) = 2 -> l[1] \o " " \o l[2]

\* C13: the reply is one line: OK for a SET; the raw value for a GET that
\* hits and NULL for one that misses; 1 or 0 for a DEL; for KEYS and SEARCH
\* the keys separated by single spaces, or (empty) for none; and
\* ERROR: <message> for an error of any command.
C13_ReplyFormat ==
    ret # <<>> =>
        LET cmd == arg[1]
            res == arg[2]
            line == ret[1]
        IN  line =
              (IF ~res.ok THEN "ERROR: " \o res.err
               ELSE CASE cmd.op = "Set" -> "OK"
                                [] cmd.op = "Get" /\ res.val = NoneV -> "NULL"
                                [] cmd.op = "Get" /\ res.val # NoneV -> res.val.v
                                [] cmd.op = "Delete" /\ res.val = BoolV(TRUE) -> "1"
                                [] cmd.op = "Delete" /\ res.val = BoolV(FALSE) -> "0"
                                [] cmd.op \in {"Keys", "Search"} /\ res.val.keys = <<>>
                                      -> "(empty)"
                                [] cmd.op \in {"Keys", "Search"} /\ res.val.keys # <<>>
                                      -> Spaced(res.val.keys)) \o "\n"

\* A SEARCH that found two keys has been answered.
C13_Witness ==
    /\ ret = <<"k2 k1\n">>
    /\ arg[1].op = "Search"

(***************************************************************************)
(* Strings as the parser sees them: sequences of characters.               *)
(***************************************************************************)
LowerCase == <<"a", "b", "c", "d", "e", "f", "g", "h", "i", "j", "k", "l", "m",
               "n", "o", "p", "q", "r", "s", "t", "u", "v", "w", "x", "y", "z">>
UpperCase == <<"A", "B", "C", "D", "E", "F", "G", "H", "I", "J", "K", "L", "M",
               "N", "O", "P", "Q", "R", "S", "T", "U", "V", "W", "X", "Y", "Z">>
Digits == {"0", "1", "2", "3", "4", "5", "6", "7", "8", "9"}

\* char::is_ascii_alphanumeric
is_ascii_alphanumeric(ch) ==
    \/ \E i \in 1..26 : ch = LowerCase[i] \/ ch = UpperCase[i]
    \/ ch \in Digits

\* char::is_whitespace, for the characters of the model
is_whitespace(ch) == ch \in {" ", "\t"}

\* char::to_lowercase and char::to_uppercase on ASCII
char_to_lowercase(ch) ==
    IF \E i \in 1..26 : ch = UpperCase[i]
    THEN LowerCase[CHOOSE i \in 1..26 : ch = UpperCase[i]] ELSE ch
char_to_uppercase(ch) ==
    IF \E i \in 1..26 : ch = LowerCase[i]
    THEN UpperCase[CHOOSE i \in 1..26 : ch = LowerCase[i]] ELSE ch

\* str::to_lowercase, str::to_uppercase
to_lowercase(s) == [i \in 1..Len(s) |-> char_to_lowercase(s[i])]
to_uppercase(s) == [i \in 1..Len(s) |-> char_to_uppercase(s[i])]

\* str::trim_start, str::trim_end, str::trim
RECURSIVE trim_start(_)
trim_start(s) == IF s # <<>> /\ is_whitespace(Head(s)) THEN trim_start(Tail(s)) ELSE s
RECURSIVE trim_end(_)
trim_end(s) ==
    IF s # <<>> /\ is_whitespace(s[Len(s)]) THEN trim_end(SubSeq(s, 1, Len(s) - 1)) ELSE s
trim(s) == trim_end(trim_start(s))

\* str::contains(char), str::starts_with, str::ends_with
contains(s, ch) == \E i \in 1..Len(s) : s[i] = ch
starts_with(s, p) == Len(s) >= Len(p) /\ SubSeq(s, 1, Len(p)) = p
ends_with(s, p) == Len(s) >= Len(p) /\ SubSeq(s, Len(s) - Len(p) + 1, Len(s)) = p

\* str::find(char): the position of the first occurrence, counted from 1;
\* 0 stands for None.
find(s, ch) ==
    IF contains(s, ch)
    THEN CHOOSE i \in 1..Len(s) : s[i] = ch /\ \A j \in 1..(i - 1) : s[j] # ch
    ELSE 0

\* &s[from..]: the rest of s after its first n characters.
Skip(s, n) == SubSeq(s, n + 1, Len(s))

\* to_string(): the characters as one string.
RECURSIVE Str(_)
Str(s) == IF s = <<>> THEN "" ELSE Head(s) \o Str(Tail(s))

\* All strings of at most n characters of alphabet A.
Strings(A, n) == UNION {[1..m -> A] : m \in 0..n}

(***************************************************************************)
(* Command::validate_key (the same text in server/api.rs and               *)
(* sodium-server/api.rs).                                                  *)
(***************************************************************************)
\* A validator that knows the hyphen only.
IsSeparator_hyphen_only(ch) == ch = "-"

\* ch == '-' || ch == '_'
IsSeparator(ch) == ch = "-" \/ ch = "_"

\* The test of the second loop on the separator at position i: it is the
\* first or the last character, or a neighbour is not a letter or digit.
SeparatorMisplaced(key, i) ==
    \/ i = 1 \/ i = Len(key)
    \/ ~is_ascii_alphanumeric(key[i - 1])
    \/ ~is_ascii_alphanumeric(key[i + 1])

\* A validator that only refuses the empty key.
validate_key_non_empty(key) ==
    IF key = <<>> THEN Err("Key cannot be empty") ELSE Ok(Unit)

validate_key(key) ==
    IF key = <<>> THEN Err("Key cannot be empty")
    ELSE IF contains(key, " ") THEN Err("Key cannot contain spaces")
    ELSE IF \E i \in 1..Len(key) : ~is_ascii_alphanumeric(key[i]) /\ ~IsSeparator(key[i])
    THEN Err("Key contains invalid character")
    ELSE IF \E i \in 1..Len(key) : IsSeparator(key[i]) /\ SeparatorMisplaced(key, i)
    THEN LET i == CHOOSE i \in 1..Len(key) :
                     /\ IsSeparator(key[i]) /\ SeparatorMisplaced(key, i)
                     /\ \A j \in 1..(i - 1) :
                           ~(IsSeparator(key[j]) /\ SeparatorMisplaced(key, j))
         IN  IF i = 1 \/ i = Len(key)
             THEN Err("Key cannot start or end with separator")
             ELSE Err("Invalid key format")
    ELSE IF \E i \in 1..(Len(key) - 1) : IsSeparator(key[i]) /\ IsSeparator(key[i + 1])
    THEN Err("Key cannot have consecutive hyphens or underscores")
    ELSE Ok(Unit)

\* SpecKey: validate_key called on every string of at most MaxKeyLen
\* characters: a lower-case and an upper-case letter, a digit, the two
\* separators, a space and two characters that keys may not hold.
KeyAlphabet == {"a", "Z", "7", "-", "_", " ", ".", "("}

InitKey ==
    /\ AtRest
    /\ arg \in Strings(KeyAlphabet, MaxKeyLen)
    /\ ret = <<>>

call_validate_key ==
    /\ ret = <<>>
    /\ ret' = <<validate_key(arg)>>
    /\ UNCHANGED <<storeVars, poolVars, connVars, histVars, recording, shard, thr,
                   budget, arg>>

SpecKey == InitKey /\ [][call_validate_key]_vars

\* The letters, digits and separators of ASCII, written out.
KeyLetters ==
    {"a", "b", "c", "d", "e", "f", "g", "h", "i", "j", "k", "l", "m", "n", "o", "p",
     "q", "r", "s", "t", "u", "v", "w", "x", "y", "z",
     "A", "B", "C", "D", "E", "F", "G", "H", "I", "J", "K", "L", "M", "N", "O", "P",
     "Q", "R", "S", "T", "U", "V", "W", "X", "Y", "Z",
     "0", "1", "2", "3", "4", "5", "6", "7", "8", "9"}
KeySeparators == {"-", "_"}

\* The key invariant of the specification.
KeyInvariant(k) ==
    /\ k # <<>>
    /\ \A i \in 1..Len(k) : k[i] \in KeyLetters \cup KeySeparators
    /\ k[1] \notin KeySeparators
    /\ k[Len(k)] \notin KeySeparators
    /\ \A i \in 1..(Len(k) - 1) : ~(k[i] \in KeySeparators /\ k[i + 1] \in KeySeparators)

\* C16: the validator accepts a string if and only if it is non-empty, holds
\* only ASCII letters, digits, '-' and '_', neither begins nor ends with '-'
\* or '_', and has no two adjacent characters among '-' and '_'.
C16_KeyValidation == ret # <<>> => (ret[1].ok <=> KeyInvariant(arg))

\* A key with both separators between letters and digits has been accepted.
C16_Witness ==
    /\ arg = <<"a", "-", "7", "_", "Z">>
    /\ ret = <<Ok(Unit)>>

(***************************************************************************)
(* Command::parse of sodium-server/api.rs: the function-call syntax.       *)
(***************************************************************************)
\* ApiError::InvalidCommand and its Display text.
InvalidCommand(msg) == "Invalid command format: " \o msg

Quote == "\""

\* Whether position i of s lies inside double quotes: an odd number of
\* quotes precedes it (in_quotes of the scanning loops).
InQuotesBefore(s, i) == Cardinality({j \in 1..(i - 1) : s[j] = Quote}) % 2 = 1

\* Command::unquote_string
unquote_string(s) ==
    LET trimmed == trim(s)
    IN  IF starts_with(trimmed, <<Quote>>) /\ ends_with(trimmed, <<Quote>>)
           /\ Len(trimmed) >= 2
        THEN SubSeq(trimmed, 2, Len(trimmed) - 1)
        ELSE trimmed

\* Command::split_function_args, the body of its loop for one character.
split_step(st, ch) ==
    IF ch = Quote
    THEN [st EXCEPT !.in_quotes = ~@, !.current_arg = Append(@, ch)]
    ELSE IF ch = "[" /\ ~st.in_quotes
    THEN [st EXCEPT !.in_brackets = @ + 1, !.current_arg = Append(@, ch)]
    ELSE IF ch = "]" /\ ~st.in_quotes
    THEN [st EXCEPT !.in_brackets = @ - 1, !.current_arg = Append(@, ch)]
    ELSE IF ch = "," /\ ~st.in_quotes /\ st.in_brackets = 0
    THEN [st EXCEPT !.args = Append(@, trim(st.current_arg)), !.current_arg = <<>>]
    ELSE [st EXCEPT !.current_arg = Append(@, ch)]

RECURSIVE split_loop(_, _)
split_loop(st, s) == IF s = <<>> THEN st ELSE split_loop(split_step(st, Head(s)), Tail(s))

\* Command::split_function_args
split_function_args(args_str) ==
    LET st == split_loop([args |-> <<>>, current_arg |-> <<>>, in_quotes |-> FALSE,
                          in_brackets |-> 0], args_str)
    IN  IF st.in_quotes THEN Err(InvalidCommand("Unclosed quote in arguments"))
        ELSE IF st.in_brackets # 0
        THEN Err(InvalidCommand("Unclosed bracket in arguments"))
        ELSE IF trim(st.current_arg) # <<>>
        THEN Ok(Append(st.args, trim(st.current_arg)))
        ELSE Ok(st.args)

\* Command::parse_function_args_single
parse_function_args_single(args_str) ==
    IF trim(args_str) = <<>>
    THEN Err(InvalidCommand("Function requires an argument"))
    ELSE Ok(unquote_string(trim(args_str)))

\* Command::parse_function_args (expected_count is 2 at its one call)
parse_function_args(args_str, expected_count) ==
    IF trim(args_str) = <<>>
    THEN Err(InvalidCommand("Function requires arguments"))
    ELSE LET args == split_function_args(trim(args_str))
         IN  IF ~args.ok THEN args
             ELSE IF Len(args.val) # expected_count
             THEN Err(InvalidCommand("Function requires arguments, got another count"))
             ELSE Ok(<<unquote_string(args.val[1]), unquote_string(args.val[2])>>)

\* Command::find_operator: the first position outside quotes where the
\* operator begins, 0 for None.
find_operator(args_str, operator) ==
    LET At(i) == /\ args_str[i] # Quote
                 /\ ~InQuotesBefore(args_str, i)
                 /\ starts_with(Skip(args_str, i - 1), operator)
    IN  IF \E i \in 1..Len(args_str) : At(i)
        THEN CHOOSE i \in 1..Len(args_str) : At(i) /\ \A j \in 1..(i - 1) : ~At(j)
        ELSE 0

\* Command::split_at_operator
split_at_operator(args_str, pos, operator) ==
    <<trim(SubSeq(args_str, 1, pos - 1)), trim(Skip(args_str, pos - 1 + Len(operator)))>>

\* Command::find_comma_outside_quotes, 0 for None
find_comma_outside_quotes(s) ==
    LET At(i) == s[i] = "," /\ ~InQuotesBefore(s, i)
    IN  IF \E i \in 1..Len(s) : At(i)
        THEN CHOOSE i \in 1..Len(s) : At(i) /\ \A j \in 1..(i - 1) : ~At(j)
        ELSE 0

\* Command::extract_first_quoted_term
extract_first_quoted_term(s) ==
    LET t == trim(s)
    IN  IF starts_with(t, <<Quote>>) /\ find(Skip(t, 1), Quote) # 0
        THEN Ok(SubSeq(Skip(t, 1), 1, find(Skip(t, 1), Quote) - 1))
        ELSE Err(InvalidCommand("Expected quoted term"))

\* Command::is_valid_search_term
is_valid_search_term(term) == Str(term) = "key" \/ Str(term) = "value"

\* Command::split_array_elements
RECURSIVE split_array_loop(_, _)
split_array_loop(st, s) ==
    IF s = <<>> THEN st
    ELSE LET ch == Head(s)
             nx == IF ch = Quote
                   THEN [st EXCEPT !.in_quotes = ~@, !.current = Append(@, ch)]
                   ELSE IF ch = "," /\ ~st.in_quotes
                   THEN [st EXCEPT !.elements = IF trim(st.current) # <<>>
                                                THEN Append(@, trim(st.current)) ELSE @,
                                   !.current = <<>>]
                   ELSE [st EXCEPT !.current = Append(@, ch)]
         IN  split_array_loop(nx, Tail(s))

split_array_elements(array_content) ==
    LET st == split_array_loop([elements |-> <<>>, current |-> <<>>,
                                in_quotes |-> FALSE], array_content)
    IN  IF st.in_quotes THEN Err(InvalidCommand("Unclosed quote in array"))
        ELSE IF trim(st.current) # <<>> THEN Ok(Append(st.elements, trim(st.current)))
        ELSE Ok(st.elements)

\* A parse_query_argument that lets an empty query through.
parse_query_argument_allows_empty(a) ==
    LET arg1 == trim(a)
    IN  IF starts_with(arg1, <<"[">>) /\ ends_with(arg1, <<"]">>)
        THEN LET elements == split_array_elements(trim(SubSeq(arg1, 2, Len(arg1) - 1)))
             IN  IF ~elements.ok THEN elements
                 ELSE Ok([i \in 1..Len(elements.val) |->
                             unquote_string(elements.val[i])])
        ELSE Ok(<<unquote_string(arg1)>>)

\* Command::parse_query_argument
parse_query_argument(a) ==
    LET arg1 == trim(a)
    IN  IF starts_with(arg1, <<"[">>) /\ ends_with(arg1, <<"]">>)
        THEN LET array_content == trim(SubSeq(arg1, 2, Len(arg1) - 1))
             IN  IF array_content = <<>>
                 THEN Err(InvalidCommand("Empty array not allowed"))
                 ELSE LET elements == split_array_elements(array_content)
                      IN  IF ~elements.ok THEN elements
                          ELSE IF \E i \in 1..Len(elements.val) :
                                     unquote_string(elements.val[i]) = <<>>
                          THEN Err(InvalidCommand("Empty query not allowed"))
                          ELSE IF elements.val = <<>>
                          THEN Err(InvalidCommand("At least one query required"))
                          ELSE Ok([i \in 1..Len(elements.val) |->
                                      unquote_string(elements.val[i])])
        ELSE IF unquote_string(arg1) = <<>>
        THEN Err(InvalidCommand("Empty query not allowed"))
        ELSE Ok(<<unquote_string(arg1)>>)

\* Command::parse_search_type_parts
parse_search_type_parts(left_part, right_part, operator) ==
    LET left_term == extract_first_quoted_term(left_part)
        comma_pos == find_comma_outside_quotes(right_part)
    IN  IF ~left_term.ok THEN left_term
        ELSE IF comma_pos = 0
        THEN Err(InvalidCommand("Missing comma after search type"))
        ELSE LET right_term ==
                     extract_first_quoted_term(trim(SubSeq(right_part, 1, comma_pos - 1)))
             IN  IF ~right_term.ok THEN right_term
                 ELSE IF ~is_valid_search_term(left_term.val)
                         \/ ~is_valid_search_term(right_term.val)
                 THEN Err(InvalidCommand("Search type must be key or value"))
                 ELSE Ok(left_term.val \o <<" ">> \o operator \o <<" ">>
                            \o right_term.val)

\* Command::extract_queries_after_operator
extract_queries_after_operator(right_part) ==
    LET comma_pos == find_comma_outside_quotes(right_part)
    IN  IF comma_pos = 0 THEN Err(InvalidCommand("Missing comma after search type"))
        ELSE parse_query_argument(trim(Skip(right_part, comma_pos)))

\* Command::parse_search_args, the branch taken when an operator is found.
parse_search_operator(args_str, pos, operator) ==
    LET parts == split_at_operator(args_str, pos, <<" ">> \o operator \o <<" ">>)
        search_type == parse_search_type_parts(parts[1], parts[2], operator)
        queries == extract_queries_after_operator(parts[2])
    IN  IF ~search_type.ok THEN search_type
        ELSE IF ~queries.ok THEN queries
        ELSE Ok(<<search_type.val, queries.val>>)

\* Command::parse_search_args
parse_search_args(a) ==
    LET args_str == trim(a)
        or_pos == find_operator(args_str, <<" ", "o", "r", " ">>)
        and_pos == find_operator(args_str, <<" ", "a", "n", "d", " ">>)
    IN  IF args_str = <<>> THEN Err(InvalidCommand("Search requires 2 arguments"))
        ELSE IF or_pos # 0 THEN parse_search_operator(args_str, or_pos, <<"o", "r">>)
        ELSE IF and_pos # 0
        THEN parse_search_operator(args_str, and_pos, <<"a", "n", "d">>)
        ELSE LET args == split_function_args(args_str)
             IN  IF ~args.ok THEN args
                 ELSE IF Len(args.val) # 2
                 THEN Err(InvalidCommand("Search requires 2 arguments"))
                 ELSE IF ~is_valid_search_term(unquote_string(args.val[1]))
                 THEN Err(InvalidCommand("Use search with key or value"))
                 ELSE LET queries == parse_query_argument(args.val[2])
                      IN  IF ~queries.ok THEN queries
                          ELSE Ok(<<unquote_string(args.val[1]), queries.val>>)

\* SearchType::parse
SearchType_parse(input) ==
    LET t == Str(to_lowercase(trim(input)))
    IN  CASE t = "key" -> Ok("Key")
          [] t = "value" -> Ok("Value")
          [] t = "key or value" -> Ok("KeyOrValue")
          [] t = "key and value" -> Ok("KeyAndValue")
          [] OTHER -> Err("Invalid search type")

\* Command::is_function_syntax
is_function_syntax(input) == contains(input, "(") /\ ends_with(input, <<")">>)

\* Command::parse_function_syntax
parse_function_syntax(input) ==
    LET open_paren == find(input, "(")
        function_name == Str(to_lowercase(trim(SubSeq(input, 1, open_paren - 1))))
        args_str == SubSeq(input, open_paren + 1, Len(input) - 1)
    IN  IF open_paren = 0 THEN Err(InvalidCommand("Invalid function syntax"))
        ELSE CASE function_name = "set" ->
                    LET kv == parse_function_args(args_str, 2)
                    IN  IF ~kv.ok THEN kv
                        ELSE IF ~validate_key(kv.val[1]).ok THEN validate_key(kv.val[1])
                        ELSE Ok(CmdSet(Str(kv.val[1]), Str(kv.val[2])))
               [] function_name = "get" ->
                    LET k == parse_function_args_single(args_str)
                    IN  IF ~k.ok THEN k
                        ELSE IF ~validate_key(k.val).ok THEN validate_key(k.val)
                        ELSE Ok(CmdGet(Str(k.val)))
               [] function_name \in {"delete", "del"} ->
                    LET k == parse_function_args_single(args_str)
                    IN  IF ~k.ok THEN k
                        ELSE IF ~validate_key(k.val).ok THEN validate_key(k.val)
                        ELSE Ok(CmdDelete(Str(k.val)))
               [] function_name = "keys" ->
                    IF trim(args_str) # <<>>
                    THEN Err(InvalidCommand("keys() takes no arguments"))
                    ELSE Ok(CmdKeys)
               [] function_name = "search" ->
                    LET sa == parse_search_args(args_str)
                    IN  IF ~sa.ok THEN sa
                        ELSE LET search_type == SearchType_parse(sa.val[1])
                             IN  IF ~search_type.ok
                                 THEN Err(InvalidCommand(search_type.err))
                                 ELSE Ok(CmdSearch(search_type.val,
                                            [i \in 1..Len(sa.val[2]) |->
                                                Str(sa.val[2][i])]))
               [] OTHER -> Err(InvalidCommand("Unknown function"))

\* Command::parse of sodium-server/api.rs
parse(line) ==
    LET input == trim(line)
    IN  IF input = <<>> THEN Err(InvalidCommand("Empty command"))
        ELSE IF Str(to_lowercase(input)) = "keys" THEN Ok(CmdKeys)
        ELSE IF ~is_function_syntax(input)
        THEN Err(InvalidCommand("Invalid command format"))
        ELSE parse_function_syntax(input)

(***************************************************************************)
(* Command::parse of server/api.rs: the legacy syntax.                     *)
(***************************************************************************)
\* str::split_whitespace
RECURSIVE split_whitespace(_)
split_whitespace(s) ==
    LET t == trim_start(s)
        n == IF \E i \in 1..Len(t) : is_whitespace(t[i])
             THEN (CHOOSE i \in 1..Len(t) :
                      is_whitespace(t[i]) /\ \A j \in 1..(i - 1) : ~is_whitespace(t[j])) - 1
             ELSE Len(t)
    IN  IF t = <<>> THEN <<>>
        ELSE <<SubSeq(t, 1, n)>> \o split_whitespace(Skip(t, n))

\* Vec<&str>::join(" ") on strings of characters
RECURSIVE join_chars(_)
join_chars(tokens) ==
    IF tokens = <<>> THEN <<>>
    ELSE IF Len(tokens) = 1 THEN tokens[1]
    ELSE tokens[1] \o <<" ">> \o join_chars(Tail(tokens))

\* A parse_set_args that takes the first token after the key as the value.
parse_set_args_first_token(args) ==
    LET pos == find(args, " ")
        key == SubSeq(args, 1, pos - 1)
        rest == trim(Skip(args, pos))
    IN  IF args = <<>> \/ pos = 0 \/ rest = <<>>
        THEN Err(InvalidCommand("SET command requires key and value"))
        ELSE Ok(<<key, split_whitespace(rest)[1]>>)

\* Command::parse_set_args
parse_set_args(args) ==
    LET pos == find(args, " ")
        key == SubSeq(args, 1, pos - 1)
        rest == trim(Skip(args, pos))
    IN  IF args = <<>> \/ pos = 0 \/ rest = <<>>
        THEN Err(InvalidCommand("SET command requires key and value"))
        ELSE IF starts_with(rest, <<Quote>>) /\ ends_with(rest, <<Quote>>) /\ Len(rest) >= 2
        THEN Ok(<<key, SubSeq(rest, 2, Len(rest) - 1)>>)
        ELSE Ok(<<key, join_chars(split_whitespace(rest))>>)

\* Command::parse of server/api.rs
server_parse(line) ==
    LET input == trim(line)
        pos == find(input, " ")
        command == Str(to_uppercase(IF pos = 0 THEN input ELSE SubSeq(input, 1, pos - 1)))
        rest == IF pos = 0 THEN <<>> ELSE trim(Skip(input, pos))
    IN  IF input = <<>> THEN Err(InvalidCommand("Empty command"))
        ELSE CASE command = "SET" ->
                    LET kv == parse_set_args(rest)
                    IN  IF ~kv.ok THEN kv
                        ELSE IF ~validate_key(kv.val[1]).ok THEN validate_key(kv.val[1])
                        ELSE Ok(CmdSet(Str(kv.val[1]), Str(kv.val[2])))
               [] command = "GET" ->
                    IF rest = <<>>
                    THEN Err(InvalidCommand("GET command requires exactly one key"))
                    ELSE IF ~validate_key(rest).ok THEN validate_key(rest)
                    ELSE Ok(CmdGet(Str(rest)))
               [] command \in {"DEL", "DELETE"} ->
                    IF rest = <<>>
                    THEN Err(InvalidCommand("DEL command requires exactly one key"))
                    ELSE IF ~validate_key(rest).ok THEN validate_key(rest)
                    ELSE Ok(CmdDelete(Str(rest)))
               [] command = "KEYS" ->
                    IF rest # <<>>
                    THEN Err(InvalidCommand("KEYS command takes no arguments"))
                    ELSE Ok(CmdKeys)
               [] OTHER -> Err(InvalidCommand("Unknown command"))

(***************************************************************************)
(* SpecLines: the connections read lines of characters; handle_client      *)
(* trims and parses each (Command::parse of sodium-server/api.rs) before   *)
(* it dispatches the command.  Nobody calls shutdown.                      *)
(***************************************************************************)
\* Lines that parse: set(k1,v1)  get(k1)  del(k1)  keys
GoodLines ==
    {<<"s", "e", "t", "(", "k", "1", ",", "v", "1", ")">>,
     <<"g", "e", "t", "(", "k", "1", ")">>,
     <<"d", "e", "l", "(", "k", "1", ")">>,
     <<"k", "e", "y", "s">>}

\* Lines that do not: an unknown verb, a missing argument, an invalid key,
\* an unclosed quote, an unclosed bracket, a search without queries, and a
\* line that is not a function call:
\*   foo(k1)  get()  get(-k)  set(k1,"v1)  set(k1,[v1)  search("key")  GET k1
BadLines ==
    {<<"f", "o", "o", "(", "k", "1", ")">>,
     <<"g", "e", "t", "(", ")">>,
     <<"g", "e", "t", "(", "-", "k", ")">>,
     <<"s", "e", "t", "(", "k", "1", ",", "\"", "v", "1", ")">>,
     <<"s", "e", "t", "(", "k", "1", ",", "[", "v", "1", ")">>,
     <<"s", "e", "a", "r", "c", "h", "(", "\"", "k", "e", "y", "\"", ")">>,
     <<"G", "E", "T", " ", "k", "1">>}

\* A line of blanks.
BlankLines == {<<" ">>}

RawLines == GoodLines \cup BadLines \cup BlankLines

\* A handler that drops the connection on a line it cannot parse.
InvalidLeaves_closed(c) == [conns[c] EXCEPT !.pc = "closed"]

\* The connection after the reply to a line that does not parse: the error
\* line is written and the loop is back at read_line.
InvalidLeaves(c) ==
    [conns[c] EXCEPT !.lines = Inc(@), !.reqs = Inc(@), !.resps = Inc(@),
                     !.answered = Inc(conns[c].reqs),
                     !.why = Why("parse"),
                     !.out = "ERROR: Invalid endpoint format"]

\* handle_client on a line Command::parse rejects: the Err arm formats the
\* fixed text and the line is written; nothing is submitted.
handle_client_invalid(c) ==
    /\ AtReadLine(c)
    /\ recording => LinesRead < budget
    /\ conns' = [conns EXCEPT ![c] = InvalidLeaves(c)]
    /\ UNCHANGED <<storeVars, poolVars, chan, histVars, recording, auxVars>>

\* handle_client on one line of characters: line.trim(), then
\* Command::parse(request_str).
handle_client_line(c, line) ==
    /\ AtReadLine(c)
    /\ recording => LinesRead < budget
    /\ \E request_str \in {trim(line)} :
          IF request_str = <<>> THEN handle_client_read(c, EmptyLine)
          ELSE \E parsed \in {parse(request_str)} :
                  IF parsed.ok THEN handle_client_read(c, parsed.val)
                  ELSE handle_client_invalid(c)

InitLines ==
    /\ PoolAtStart
    /\ budget = MaxLines
    /\ recording = TRUE

NextLines ==
    \/ \E c \in Conns, line \in RawLines : handle_client_line(c, line)
    \/ \E c \in Conns : ConnStep(c)
    \/ \E w \in Workers : WorkerStep(w)

SpecLines == InitLines /\ [][NextLines]_vars

\* Connection c is answered a parse error in this step.
ParseFails(c) == conns'[c].why = "parse" /\ conns'[c].lines = conns[c].lines + 1

\* C14: a line that fails to parse is answered the one line
\* ERROR: Invalid endpoint format; the step submits no task and leaves the
\* store and the queues as they were; the connection is back at read_line,
\* and the line it reads next is dispatched and answered as on a connection
\* that never sent a bad line.
C14_ParseFailure ==
    /\ [][\A c \in Conns :
            ParseFails(c) =>
               /\ conns'[c].out = "ERROR: Invalid endpoint format"
               /\ conns'[c].pc = "read"
               /\ conns'[c].resps = conns'[c].reqs
               /\ UNCHANGED <<cache, queues, next_queue, accepted, rejected, executed>>]_vars
    /\ [](\A c \in Conns :
            /\ conns[c].pc # "closed"
            /\ \A n \in 1..MaxLines :
                  (conns[c].pc = "read" /\ conns[c].reqs = n /\ <<c, n>> \in DOMAIN executed)
                      => conns[c].out # "ERROR: Invalid endpoint format")

\* A connection was answered a parse error and then had its next line
\* executed and answered.
C14_Witness ==
    \E c \in Conns :
        /\ conns[c].pc = "read"
        /\ conns[c].lines = 3 /\ conns[c].reqs = 3
        /\ <<c, 1>> \in DOMAIN executed
        /\ <<c, 2>> \notin DOMAIN executed /\ <<c, 2>> \notin rejected
        /\ <<c, 3>> \in DOMAIN executed
        /\ conns[c].out = "v1"

(***************************************************************************)
(* SpecIO: connections whose socket can fail.  read_line or write_all      *)
(* returns Err, handle_client breaks out of its loop and returns Ok(()),   *)
(* and the accept loop of TcpApiServer::run, which spawned the task, goes  *)
(* on accepting (server/api.rs).                                           *)
(***************************************************************************)
\* A failure on one socket that ends every connection task.
Broken_everyone(c, cause) ==
    [d \in Conns |-> [conns[d] EXCEPT !.pc = "closed", !.cmd = <<>>,
                                      !.res = <<Ok(Unit)>>, !.why = Why(cause)]]

\* break, then Ok(()): the task of connection c is over, res holds what
\* handle_client returned to the task spawned by run.
Broken(c, cause) ==
    [conns EXCEPT ![c] = [@ EXCEPT !.pc = "closed", !.cmd = <<>>,
                                   !.res = <<Ok(Unit)>>, !.why = Why(cause)]]

\* reader.read_line returns Err(e).
handle_client_read_error(c) ==
    /\ AtReadLine(c)
    /\ conns' = Broken(c, "read")
    /\ UNCHANGED <<storeVars, poolVars, chan, histVars, recording, auxVars>>

\* writer.write_all returns Err(e): the reply in hand is lost.
handle_client_write_error(c) ==
    /\ ReplyReady(c)
    /\ conns' = Broken(c, "write")
    /\ chan' = [chan EXCEPT ![c] = <<>>]
    /\ UNCHANGED <<storeVars, poolVars, histVars, recording, auxVars>>

\* listener.accept returns a stream and run spawns handle_client for it; the
\* new connection takes the place of one that is over.
run_accept(c) ==
    /\ conns[c].pc = "closed"
    /\ conns' = [conns EXCEPT ![c] = [@ EXCEPT !.pc = "read", !.res = <<>>,
                                               !.out = "", !.why = Why("accept")]]
    /\ UNCHANGED <<storeVars, poolVars, chan, histVars, recording, auxVars>>

InitIO ==
    /\ PoolAtStart
    /\ budget = MaxLines
    /\ recording = TRUE

NextIO ==
    \/ \E c \in Conns, line \in FairLines : handle_client_read(c, line)
    \/ \E c \in Conns : ConnStep(c)
    \/ \E w \in Workers : WorkerStep(w)
    \/ \E c \in Conns : handle_client_read_error(c)
    \/ \E c \in Conns : handle_client_write_error(c)
    \/ \E c \in Conns : run_accept(c)

SpecIO == InitIO /\ [][NextIO]_vars

\* The task of connection c ends in this step.
Breaks(c) == conns[c].pc # "closed" /\ conns'[c].pc = "closed"

\* C15: when read_line or write_all fails on a connection, its task returns
\* Ok(()) and nothing else changes: the other connections, the queues, the
\* workers and the store are as they were; and whenever a connection is over
\* the accept loop can take a new one.
C15_IoFailure ==
    /\ [][\A c \in Conns :
            Breaks(c) =>
               /\ conns'[c].res = <<Ok(Unit)>>
               /\ conns'[c].why \in {"read", "write"}
               /\ \A d \in Conns \ {c} : conns'[d] = conns[d] /\ chan'[d] = chan[d]
               /\ UNCHANGED <<storeVars, poolVars, histVars>>]_vars
    /\ [](\A c \in Conns : conns[c].pc = "closed" => ENABLED run_accept(c))

\* The reply to a connection's first request could not be written; a new
\* connection was accepted in its place and its request was answered with the
\* value the lost request had stored, while the other connection was served
\* too.
C15_Witness ==
    \E c \in Conns, d \in Conns :
        /\ c # d
        /\ conns[c].pc = "read" /\ conns[c].reqs = 2 /\ conns[c].resps = 1
        /\ conns[c].out = "v1"
        /\ conns[d].pc = "read" /\ conns[d].resps = 1

(***************************************************************************)
(* SpecParse: Command::parse of sodium-server/api.rs called on a line, in  *)
(* the function-call form or in the legacy form.                           *)
(***************************************************************************)
\* The verbs, in both cases.
ParseOps ==
    {<<"s", "e", "t">>, <<"S", "E", "T">>, <<"g", "e", "t">>, <<"G", "E", "T">>,
     <<"d", "e", "l">>, <<"D", "E", "L">>, <<"k", "e", "y", "s">>,
     <<"K", "E", "Y", "S">>}

\* What follows the verb: nothing, a key, a key and a value separated by a
\* comma or by a space, and a key followed by a value in parentheses.
ParseArgs ==
    {<<>>,
     <<"f", "o", "o">>,
     <<"f", "o", "o", ",", "b", "a", "r">>,
     <<"f", "o", "o", " ", "b", "a", "r">>,
     <<"f", "o", "o", " ", "(", "b", ")">>}

\* verb(args)
FunctionForm(op, a) == op \o <<"(">> \o a \o <<")">>

\* VERB args
LegacyForm(op, a) == IF a = <<>> THEN op ELSE op \o <<" ">> \o a

ParseLines ==
    {FunctionForm(op, a) : op \in ParseOps, a \in ParseArgs}
        \cup {LegacyForm(op, a) : op \in ParseOps, a \in ParseArgs}

InitParse ==
    /\ AtRest
    /\ arg \in ParseLines
    /\ ret = <<>>

call_parse ==
    /\ ret = <<>>
    /\ ret' = <<parse(arg)>>
    /\ UNCHANGED <<storeVars, poolVars, connVars, histVars, recording, shard, thr,
                   budget, arg>>

SpecParse == InitParse /\ [][call_parse]_vars

\* The parser the specification describes: the line keys and every line
\* that contains ( and ends with ) go to the function-call grammar, every
\* other line to the legacy grammar.
Selected(line) ==
    LET input == trim(line)
    IN  IF input = <<>> THEN Err(InvalidCommand("Empty command"))
        ELSE IF Str(to_lowercase(input)) = "keys" THEN Ok(CmdKeys)
        ELSE IF is_function_syntax(input) THEN parse_function_syntax(input)
        ELSE server_parse(input)

\* C17: the parser accepts a line exactly when the grammar selected for it
\* does (function-call for keys and for a line with ( that ends with ),
\* legacy for every other line), and then yields that grammar's command.
C17_SyntaxSelection ==
    ret # <<>> =>
        /\ ret[1].ok = Selected(arg).ok
        /\ ret[1].ok => ret[1] = Selected(arg)

\* The two forms of one valid command: SET foo bar and set(foo,bar), GET foo
\* and get(foo), DEL foo and del(foo), KEYS and keys(), the verb in either
\* case.
EquivalentForms ==
    {<<LegacyForm(op, <<"f", "o", "o", " ", "b", "a", "r">>),
       FunctionForm(op, <<"f", "o", "o", ",", "b", "a", "r">>)>> :
         op \in {<<"s", "e", "t">>, <<"S", "E", "T">>}}
    \cup {<<LegacyForm(op, <<"f", "o", "o">>), FunctionForm(op, <<"f", "o", "o">>)>> :
            op \in {<<"g", "e", "t">>, <<"G", "E", "T">>,
                    <<"d", "e", "l">>, <<"D", "E", "L">>}}
    \cup {<<LegacyForm(op, <<>>), FunctionForm(op, <<>>)>> :
            op \in {<<"k", "e", "y", "s">>, <<"K", "E", "Y", "S">>}}

\* C18: the legacy form of a valid SET, GET, DEL or KEYS command parses to
\* a command, the same one its function-call form parses to (the command
\* is all that execute_command is given, so the reply and the effect on the
\* store are then the same).
C18_GrammarEquivalence ==
    ret # <<>> =>
        \A forms \in EquivalentForms :
            arg = forms[1] =>
                /\ ret[1].ok
                /\ ret[1] = parse(forms[2])

(***************************************************************************)
(* SpecSearch: SearchEngine::search_multiple (sodium-server/search.rs) on  *)
(* a store that no other thread touches.  Keys, values and queries are     *)
(* strings of characters here.                                             *)
(***************************************************************************)
\* str::contains(&String): pat occurs in s.
contains_str(s, pat) ==
    \E i \in 0..(Len(s) - Len(pat)) : SubSeq(s, i + 1, i + Len(pat)) = pat

\* A match that one query is enough for.
key_contains_any(key, queries) ==
    LET key_lower == to_lowercase(key)
    IN  \E i \in 1..Len(queries) : contains_str(key_lower, queries[i])

\* SearchEngine::key_contains_all
key_contains_all(key, queries) ==
    LET key_lower == to_lowercase(key)
    IN  \A i \in 1..Len(queries) : contains_str(key_lower, queries[i])

\* SearchEngine::value_contains_all
value_contains_all(value, queries) ==
    LET value_lower == to_lowercase(value)
    IN  \A i \in 1..Len(queries) : contains_str(value_lower, queries[i])

\* A search that walks the keys of the whole key space.
all_keys_ever(c, order) ==
    [cache |-> [c EXCEPT !.total_operations = @ + 1], result |-> Ok(VecV(order))]

\* let all_keys = cache.keys().await?
all_keys(c, order) == Sodium_keys(c, order)

\* cache.get(&key) of the search: Sodium::get on a key that is a string of
\* characters (the text of the miss is built from the key's characters).
cache_get(c, key, t) ==
    IF key \in DOMAIN c.storage THEN Sodium_get(c, key, t)
    ELSE [cache |-> [c EXCEPT !.total_operations = @ + 1,
                              !.miss_count = @ + 1],
          result |-> Err(KeyNotFound(Str(key)))]

\* A search that fetches the value in mode Key as well.
search_key_fetches_in_key_mode(c, search_type, key, queries_lower, t) ==
    LET key_matches == key_contains_all(key, queries_lower)
        got == cache_get(c, key, t)
        value_matches == IF got.result.ok
                         THEN value_contains_all(got.result.val.v, queries_lower)
                         ELSE FALSE
    IN  CASE search_type = "Key" ->
                [cache |-> got.cache, should_include |-> key_matches]
          [] search_type = "Value" ->
                [cache |-> got.cache, should_include |-> value_matches]
          [] search_type = "KeyOrValue" ->
                [cache |-> got.cache, should_include |-> key_matches \/ value_matches]
          [] search_type = "KeyAndValue" ->
                [cache |-> got.cache, should_include |-> key_matches /\ value_matches]

\* A search that takes a key whose value cannot be fetched as a match of
\* the value.
search_key_missing_matches(c, search_type, key, queries_lower, t) ==
    LET key_matches == key_contains_all(key, queries_lower)
        got == cache_get(c, key, t)
        value_matches == IF got.result.ok
                         THEN value_contains_all(got.result.val.v, queries_lower)
                         ELSE TRUE
    IN  CASE search_type = "Key" ->
                [cache |-> c, should_include |-> key_matches]
          [] search_type = "Value" ->
                [cache |-> got.cache, should_include |-> value_matches]
          [] search_type = "KeyOrValue" ->
                [cache |-> got.cache, should_include |-> key_matches \/ value_matches]
          [] search_type = "KeyAndValue" ->
                [cache |-> got.cache, should_include |-> key_matches /\ value_matches]

\* The body of for key in all_keys: the store after the cache.get of the
\* value modes, and should_include.
search_key(c, search_type, key, queries_lower, t) ==
    LET key_matches == key_contains_all(key, queries_lower)
        got == cache_get(c, key, t)
        value_matches == IF got.result.ok
                         THEN value_contains_all(got.result.val.v, queries_lower)
                         ELSE FALSE
    IN  CASE search_type = "Key" ->
                [cache |-> c, should_include |-> key_matches]
          [] search_type = "Value" ->
                [cache |-> got.cache, should_include |-> value_matches]
          [] search_type = "KeyOrValue" ->
                [cache |-> got.cache, should_include |-> key_matches \/ value_matches]
          [] search_type = "KeyAndValue" ->
                [cache |-> got.cache, should_include |-> key_matches /\ value_matches]

\* for key in all_keys { ... matching_keys.push(key) }
RECURSIVE search_loop(_, _, _, _, _, _)
search_loop(c, search_type, keys, queries_lower, t, matching_keys) ==
    IF keys = <<>> THEN [cache |-> c, result |-> Ok(VecV(matching_keys))]
    ELSE LET one == search_key(c, search_type, Head(keys), queries_lower, t)
         IN  search_loop(one.cache, search_type, Tail(keys), queries_lower, t,
                         IF one.should_include THEN Append(matching_keys, Head(keys))
                         ELSE matching_keys)

\* SearchEngine::search_multiple
search_multiple(c, search_type, queries, order, t) ==
    LET queries_lower == [i \in 1..Len(queries) |-> to_lowercase(queries[i])]
        listed == all_keys(c, order)
    IN  search_loop(listed.cache, search_type, listed.result.val.keys,
                    queries_lower, t, <<>>)

\* The keys, values and query terms of SpecSearch: aB, Ba, c-d; Ab, b, "";
\* a, B, AB, -.
SearchKeys == {<<"a", "B">>, <<"B", "a">>, <<"c", "-", "d">>}
SearchValues == {<<"A", "b">>, <<"b">>, <<>>}
SearchTerms == {<<"a">>, <<"B">>, <<"A", "B">>, <<"-">>}

\* The store after one SET of each key of f.
Stored(f) ==
    [storage |-> [k \in DOMAIN f |-> CacheEntry_new(f[k], 0)],
     total_operations |-> Cardinality(DOMAIN f), hit_count |-> 0, miss_count |-> 0]

SearchStores == UNION {{Stored(f) : f \in [S -> SearchValues]} : S \in SUBSET SearchKeys}

InitSearch ==
    /\ NoPool
    /\ NoRace
    /\ budget = 0
    /\ now = 0
    /\ log = <<>>
    /\ recording = TRUE
    /\ cache \in SearchStores
    /\ arg \in [search_type : SearchTypes,
                queries : UNION {[1..n -> SearchTerms] : n \in 1..MaxQueries},
                order : Arrangements(SearchKeys)]
    /\ ret = <<>>

call_search_multiple ==
    /\ ret = <<>>
    /\ LET r == search_multiple(cache, arg.search_type, arg.queries, arg.order, now)
       IN  /\ cache' = r.cache
           /\ ret' = <<r.result>>
    /\ UNCHANGED <<now, log, poolVars, connVars, histVars, recording, shard, thr,
                   budget, arg>>

SpecSearch == InitSearch /\ [][call_search_multiple]_vars

\* p is a substring of s.
IsSubstring(p, s) == \E i \in 0..Len(s), j \in 0..Len(s) : SubSeq(s, i + 1, j) = p
Lowered(s) == to_lowercase(s)

\* K and V of the specification for key k of the store.
MatchesK(k) ==
    \A i \in 1..Len(arg.queries) : IsSubstring(Lowered(arg.queries[i]), Lowered(k))
MatchesV(k) ==
    \A i \in 1..Len(arg.queries) :
        IsSubstring(Lowered(arg.queries[i]), Lowered(cache.storage[k].value))

\* The keys a search returned.
Found == {ret[1].val.keys[i] : i \in 1..Len(ret[1].val.keys)}

\* C19: on a store nobody else touches, a key of the store is in the
\* result of a search exactly when K holds (mode Key), V holds (Value), K or V
\* (KeyOrValue), K and V (KeyAndValue).
C19_SearchSemantics ==
    ret # <<>> =>
        /\ ret[1].ok
        /\ \A k \in DOMAIN cache.storage :
              k \in Found <=>
                 CASE arg.search_type = "Key" -> MatchesK(k)
                   [] arg.search_type = "Value" -> MatchesV(k)
                   [] arg.search_type = "KeyOrValue" -> MatchesK(k) \/ MatchesV(k)
                   [] arg.search_type = "KeyAndValue" -> MatchesK(k) /\ MatchesV(k)

\* A search for AB in mode KeyOrValue found aB by its key and Ba by its
\* value Ab, and left out c-d, whose key and value b do not hold ab.
C19_Witness ==
    /\ ret # <<>>
    /\ arg.search_type = "KeyOrValue"
    /\ arg.queries = << <<"A", "B">> >>
    /\ DOMAIN cache.storage = SearchKeys
    /\ cache.storage[<<"a", "B">>].value = <<>>
    /\ cache.storage[<<"B", "a">>].value = <<"A", "b">>
    /\ cache.storage[<<"c", "-", "d">>].value = <<"b">>
    /\ Found = {<<"a", "B">>, <<"B", "a">>}

\* C20: every key a search returns is one of the keys KEYS returns on the
\* same store.
C20_SearchSubset ==
    ret # <<>> =>
        LET listed == Sodium_keys(cache, arg.order).result.val.keys
        IN  Found \subseteq {listed[i] : i \in 1..Len(listed)}

\* A search returned some of the keys of the store and not all of them.
C20_Witness ==
    /\ ret # <<>>
    /\ Found # {}
    /\ Found # DOMAIN cache.storage
    /\ Cardinality(DOMAIN cache.storage) = 2

(***************************************************************************)
(* SpecConfig: SodiumConfig::load_and_heal (server/configuration.rs) on a  *)
(* sodium.toml that exists.  A file is either text that is not TOML or a   *)
(* top-level table; a TOML value is a string, an integer or a boolean.     *)
(* Reading and writing the file succeed.                                   *)
(***************************************************************************)
\* toml::Value::String, Integer, Boolean: the variant and what it holds.
TomlString(v) == [String |-> v]
TomlInteger(v) == [Integer |-> v]
TomlBoolean(v) == [Boolean |-> v]
\* A key the table does not have.
Absent == [Absent |-> TRUE]

\* Text that toml::from_str rejects whatever the target type.
NotToml == [syntax |-> "invalid"]

\* impl Default for SodiumConfig
SodiumConfig_default ==
    [bind_ip |-> "0.0.0.0", bind_port |-> 1123, cluster_enabled |-> FALSE,
     whisper_timeout |-> 1]

\* The values sodium.toml gives each key in SpecConfig: none, a value of the field's type, one of another
\* type, and for the port an integer that no u16 holds.
ConfigFiles ==
    {NotToml} \cup
    [bind_ip : {Absent, TomlString("127.0.0.1"), TomlInteger(5)},
     bind_port : {Absent, TomlInteger(8080), TomlInteger(70000), TomlString("x")},
     cluster_enabled : {Absent, TomlBoolean(TRUE), TomlString("yes")},
     whisper_timeout : {Absent, TomlInteger(30), TomlBoolean(FALSE)}]

\* The field is in the file with a value of the given TOML type.
Has(table, field, type) == DOMAIN table[field] = {type}

\* toml::from_str::<SodiumConfig>: every field present, of its type and in
\* the range of the field's integer type.
from_str_SodiumConfig(content) ==
    IF content = NotToml THEN Err("TOML parsing error")
    ELSE IF /\ Has(content, "bind_ip", "String")
            /\ Has(content, "bind_port", "Integer")
            /\ content.bind_port.Integer \in 0..65535
            /\ Has(content, "cluster_enabled", "Boolean")
            /\ Has(content, "whisper_timeout", "Integer")
            /\ content.whisper_timeout.Integer >= 0
    THEN Ok([bind_ip |-> content.bind_ip.String, bind_port |-> content.bind_port.Integer,
             cluster_enabled |-> content.cluster_enabled.Boolean,
             whisper_timeout |-> content.whisper_timeout.Integer])
    ELSE Err("TOML parsing error")

\* *port as u16
as_u16(n) == n % 65536

\* SodiumConfig::parse_partial_config
parse_partial_config(content) ==
    IF content = NotToml THEN Err("TOML parsing error")
    ELSE Ok([bind_ip |-> IF Has(content, "bind_ip", "String")
                         THEN content.bind_ip.String ELSE SodiumConfig_default.bind_ip,
             bind_port |-> IF Has(content, "bind_port", "Integer")
                           THEN as_u16(content.bind_port.Integer)
                           ELSE SodiumConfig_default.bind_port,
             cluster_enabled |-> IF Has(content, "cluster_enabled", "Boolean")
                                 THEN content.cluster_enabled.Boolean
                                 ELSE SodiumConfig_default.cluster_enabled,
             whisper_timeout |-> IF Has(content, "whisper_timeout", "Integer")
                                 THEN content.whisper_timeout.Integer
                                 ELSE SodiumConfig_default.whisper_timeout])

\* SodiumConfig::heal_config
heal_config(config) == config

\* SodiumConfig::save_to_file: the text toml::to_string_pretty writes.
save_to_file(config) ==
    [bind_ip |-> TomlString(config.bind_ip),
     bind_port |-> TomlInteger(config.bind_port),
     cluster_enabled |-> TomlBoolean(config.cluster_enabled),
     whisper_timeout |-> TomlInteger(config.whisper_timeout)]

\* SodiumConfig::load_and_heal: its result and the file it leaves.
load_and_heal(content) ==
    LET whole == from_str_SodiumConfig(content)
        partial == parse_partial_config(content)
    IN  IF whole.ok
        THEN <<Ok(heal_config(whole.val)), save_to_file(heal_config(whole.val))>>
        ELSE IF ~partial.ok THEN <<partial, content>>
        ELSE <<Ok(heal_config(partial.val)), save_to_file(heal_config(partial.val))>>

InitConfig ==
    /\ AtRest
    /\ arg \in ConfigFiles
    /\ ret = <<>>

call_load_and_heal ==
    /\ ret = <<>>
    /\ ret' = load_and_heal(arg)
    /\ UNCHANGED <<storeVars, poolVars, connVars, histVars, recording, shard, thr,
                   budget, arg>>

SpecConfig == InitConfig /\ [][call_load_and_heal]_vars

\* The configuration the specification promises for a file: each
\* recognized key that is present with the right type keeps its value, every
\* other field has its default.
Salvaged(content) ==
    LET kept(field, type) ==
            IF content # NotToml /\ Has(content, field, type)
            THEN content[field][type] ELSE SodiumConfig_default[field]
    IN  [bind_ip |-> kept("bind_ip", "String"),
         bind_port |-> kept("bind_port", "Integer"),
         cluster_enabled |-> kept("cluster_enabled", "Boolean"),
         whisper_timeout |-> kept("whisper_timeout", "Integer")]

\* C21: when sodium.toml does not parse into the configuration,
\* load_and_heal still returns Ok with the salvaged configuration, and the
\* file then holds that configuration.
C21_ConfigSelfHealing ==
    (ret # <<>> /\ ~from_str_SodiumConfig(arg).ok) =>
        /\ ret[1].ok
        /\ ret[1].val = Salvaged(arg)
        /\ ret[2] = save_to_file(Salvaged(arg))

(***************************************************************************)
(* Claims about the worker loop, the submission and the shutdown of the    *)
(* pool (server/threading.rs), under Spec and FairSpec.                    *)
(***************************************************************************)
\* Worker w leaves worker_loop in this step.
Exits(w) == workers[w].pc # "exited" /\ workers'[w].pc = "exited"

\* C22: a worker leaves its loop only when the pool's shutdown flag is set
\* and its own queue is empty, so that no accepted task is left behind.
C22_ExitOnlyWhenQueueEmpty ==
    [][\A w \in Workers : Exits(w) => (shutdown /\ queues[w] = <<>>)]_vars

\* Worker w gives up on its own queue in this step and goes on to the
\* queues of the others.
StartsScan(w) == workers[w].pc \in {"pop", "popping"} /\ workers'[w].pc = "steal"

\* Worker w takes a task in this step, from its own queue or from a victim.
TakesOwn(w) == workers[w].pc = "popping" /\ workers'[w].pc = "exec"
TakesFrom(w, v) ==
    workers[w].pc = "stealing" /\ workers[w].victim = v /\ workers'[w].pc = "exec"

\* C23: the task a worker takes from its own queue is the one at the head;
\* the task it steals comes from the tail of another worker's queue; and it
\* turns to the other queues only when its own queue is empty.
C23_OwnHeadThenStealTail ==
    [][\A w \in Workers :
          /\ TakesOwn(w) =>
                /\ workers'[w].task = <<Head(queues[w])>>
                /\ queues'[w] = Tail(queues[w])
          /\ \A v \in Queues :
                TakesFrom(w, v) =>
                   /\ v # w
                   /\ workers'[w].task = <<queues[v][Len(queues[v])]>>
                   /\ queues'[v] = SubSeq(queues[v], 1, Len(queues[v]) - 1)
          /\ StartsScan(w) => queues[w] = <<>>]_vars

\* The requests the connections have handed to execute_command so far.
Submissions ==
    Cardinality(UNION {{<<c, n>> : n \in 1..conns[c].reqs} : c \in Conns})

\* Connection c calls ThreadPool::execute in this step and gets past the
\* test of the pool's flag.
Attempts(c) == conns[c].pc = "read" /\ conns'[c].pc = "push"

\* C24: while the pool is not shut down the counter is the number of
\* submission attempts so far, failed pushes included; attempt number k
\* (from 0) is given queue k mod NumQueues, an index of a queue, and a push
\* that succeeds appends the task to the tail of that queue.
C24_RoundRobin ==
    /\ [](~shutdown => next_queue = Submissions)
    /\ [][\A c \in Conns :
            /\ Attempts(c) =>
                  /\ conns'[c].queue = next_queue % NumQueues
                  /\ conns'[c].queue \in Queues
                  /\ next_queue' = next_queue + 1
            /\ (conns[c].pc = "pushing" /\ conns'[c].pc = "await") =>
                  /\ Len(queues'[conns[c].queue]) = Len(queues[conns[c].queue]) + 1
                  /\ SubSeq(queues'[conns[c].queue], 1, Len(queues[conns[c].queue]))
                        = queues[conns[c].queue]
                  /\ queues'[conns[c].queue][Len(queues'[conns[c].queue])].sender
                        = <<c, conns[c].reqs>>]_vars

\* The third attempt, after one accepted and one refused push, is given
\* queue 0 again.
C24_Witness ==
    /\ ~shutdown
    /\ next_queue = 3
    /\ accepted # {} /\ rejected # {}
    /\ \E c \in Conns : conns[c].pc = "push" /\ conns[c].queue = 0

\* Every worker thread has returned from worker_loop: the joins of
\* ThreadPool::drop complete.
AllJoined == \A w \in Workers : workers[w].pc = "exited"

\* C25: once the pool's flag is set every worker eventually leaves its
\* loop, so the joins complete; a worker leaves only from the test at the
\* top of the loop, with no task in its hands, and stays out.
C25_ShutdownTerminates ==
    /\ shutdown ~> AllJoined
    /\ [][\A w \in Workers :
            /\ Exits(w) => (shutdown /\ workers[w].pc = "loop" /\ workers[w].task = <<>>)
            /\ workers[w].pc = "exited" => workers'[w].pc = "exited"]_vars

\* All workers have left after a SET was served, one task still queued.
C25_Witness ==
    /\ shutdown
    /\ AllJoined
    /\ DOMAIN cache.storage # {}
    /\ \E q \in Queues : queues[q] # <<>>

(***************************************************************************)
(* SpecCancel: the connection tasks are dropped by the runtime (main       *)
(* returns from its select on ctrl_c) while the worker threads, which are  *)
(* not the runtime's, go on.  A task dropped at receiver.await drops the   *)
(* receiver of the reply channel of a request that is queued or executing. *)
(***************************************************************************)
\* The future of handle_client is dropped at one of its await points:
\* read_line, receiver.await or write_all.  The cause is "dropped" when the
\* receiver goes before the result was sent.
handle_client_cancelled(c) ==
    /\ conns[c].pc \in {"read", "await", "write"}
    /\ conns' = [conns EXCEPT ![c] =
                    [@ EXCEPT !.pc = "closed", !.cmd = <<>>, !.res = <<>>,
                              !.why = Why(IF conns[c].pc = "await" /\ chan[c] = <<>>
                                          THEN "dropped" ELSE "cancelled")]]
    /\ chan' = [chan EXCEPT ![c] = <<>>]
    /\ UNCHANGED <<storeVars, poolVars, histVars, recording, auxVars>>

InitCancel ==
    /\ PoolAtStart
    /\ budget = MaxLines
    /\ recording = TRUE

NextCancel ==
    \/ \E c \in Conns, line \in FairLines : handle_client_read(c, line)
    \/ \E c \in Conns : ConnStep(c)
    \/ \E w \in Workers : WorkerStep(w)
    \/ \E c \in Conns : handle_client_cancelled(c)

SpecCancel == InitCancel /\ [][NextCancel]_vars

\* Worker w runs execute_task in this step on a task whose receiver has been
\* dropped.
SendsToNobody(w) ==
    /\ workers[w].pc = "exec"
    /\ workers'[w] # workers[w]
    /\ conns[workers[w].task[1].sender[1]].pc = "closed"

\* C26: a worker whose task's receiver is gone still applies the command to
\* the store, delivers nothing, and is back at the test of its loop with
\* empty hands, as after any other task; no worker thread ever ends while
\* the pool is running.
C26_DroppedReceiver ==
    /\ [][\A w \in Workers :
            SendsToNobody(w) =>
               /\ \E order \in IterOrders :
                     cache' = execute_task(cache, workers[w].task[1].cmd, now, order).cache
               /\ cache'.total_operations = cache.total_operations + 1
               /\ workers[w].task[1].sender \in DOMAIN executed'
               /\ chan' = chan
               /\ UNCHANGED conns
               /\ workers'[w].pc = "loop"
               /\ workers'[w].task = <<>>]_vars
    /\ [](\A w \in Workers : workers[w].pc # "exited")

\* A SET whose receiver was dropped before the result was sent has been
\* applied, and a worker has taken a further task.
C26_Witness ==
    \E c \in Conns :
        /\ conns[c].pc = "closed"
        /\ conns[c].why = "dropped"
        /\ <<c, conns[c].reqs>> \in DOMAIN executed
        /\ "k1" \in DOMAIN cache.storage
        /\ cache.total_operations = 1
        /\ \E w \in Workers : workers[w].pc = "exec"

(***************************************************************************)
(* The counters and the access times of the store, against the history of  *)
(* served requests.                                                        *)
(***************************************************************************)
\* The GETs of the history that found their key live, and those that did
\* not.
GetHits == {i \in 1..Len(log) : log[i].cmd.op = "Get" /\ Live(i, log[i].cmd.key)}

GetMisses == {i \in 1..Len(log) : log[i].cmd.op = "Get" /\ ~Live(i, log[i].cmd.key)}

\* C27: each served operation advances total_operations by one, each GET
\* that hits advances hit_count by one and each GET that misses miss_count:
\* total_operations is the number of operations, hit_count the number of
\* hits, miss_count the number of misses, and hit_count + miss_count never
\* exceeds total_operations.
C27_Counters ==
    /\ cache.total_operations = Len(log)
    /\ cache.hit_count = Cardinality(GetHits)
    /\ cache.miss_count = Cardinality(GetMisses)
    /\ cache.hit_count + cache.miss_count <= cache.total_operations

\* A hit, a miss and two other operations have been counted.
C27_Witness ==
    /\ cache.total_operations = 4
    /\ cache.hit_count = 1
    /\ cache.miss_count = 1
    /\ \E i \in 1..Len(log) : log[i].cmd.op = "Keys"

\* A request is served in this step; Served is the request.
Serves == Len(log') = Len(log) + 1

Served == log'[Len(log')]

\* The entry of key k is in the store before and after the step with the
\* same accessed_at.
SameAccessTime(k) ==
    /\ k \in DOMAIN cache'.storage
    /\ cache'.storage[k].accessed_at = cache.storage[k].accessed_at

\* C28: accessed_at is written when SET creates the entry and when GET hits
\* it, and nowhere else: a GET that misses and a KEYS leave the time of
\* every entry as it was, a DEL those of the entries it leaves, and a SET or
\* a GET hit of k gives k's entry the present time and leaves the others.
C28_AccessTime ==
    [][Serves =>
         LET cmd == Served.cmd
             hit == cmd.op = "Get" /\ cmd.key \in DOMAIN cache.storage
         IN  /\ (cmd.op = "Keys" \/ (cmd.op = "Get" /\ ~hit)) =>
                    /\ DOMAIN cache'.storage = DOMAIN cache.storage
                    /\ \A k \in DOMAIN cache.storage : SameAccessTime(k)
             /\ cmd.op = "Delete" =>
                    \A k \in DOMAIN cache.storage \ {cmd.key} : SameAccessTime(k)
             /\ (cmd.op = "Set" \/ hit) =>
                    /\ cache'.storage[cmd.key].accessed_at = now
                    /\ \A k \in DOMAIN cache.storage \ {cmd.key} : SameAccessTime(k)]_vars

\* A GET hit of k1 has moved k1's time and left k2's.
C28_Witness ==
    /\ log # <<>>
    /\ log[Len(log)].cmd = CmdGet("k1")
    /\ log[Len(log)].result = Ok(SomeV("v1"))
    /\ {"k1", "k2"} \subseteq DOMAIN cache.storage
    /\ cache.storage["k1"].accessed_at = 1
    /\ cache.storage["k2"].accessed_at = 0
    /\ \E i \in 1..Len(log) : log[i].cmd.op = "Set" /\ log[i].cmd.key = "k1"
                                /\ log[i].after # log[i].before

(***************************************************************************)
(* SpecSearchDel: search_multiple one cache call at a time, while another  *)
(* worker thread executes DELs.  thr is the searching thread: the keys of  *)
(* its snapshot still to visit, the keys pushed so far, and the keys whose *)
(* value fetch found them gone.                                            *)
(***************************************************************************)
\* The DELs executed beside one search.
MaxDeletes == 1

\* The stores holding every key of SearchKeys.
FullStores == {Stored(f) : f \in [SearchKeys -> SearchValues]}

InitSearchDel ==
    /\ NoPool
    /\ shard = [k \in Keys |-> {}]
    /\ thr = [pc |-> "start", keys |-> <<>>, matching_keys |-> <<>>, missing |-> {}]
    /\ budget = MaxDeletes
    /\ now = 0
    /\ log = <<>>
    /\ recording = TRUE
    /\ cache \in FullStores
    /\ arg \in [search_type : SearchTypes,
                queries : UNION {[1..n -> SearchTerms] : n \in 1..MaxQueries},
                order : Arrangements(SearchKeys)]
    /\ ret = <<>>

\* let all_keys = cache.keys().await?
search_snapshot ==
    /\ thr.pc = "start"
    /\ \E listed \in {all_keys(cache, arg.order)} :
          /\ cache' = listed.cache
          /\ thr' = [thr EXCEPT !.pc = "loop", !.keys = listed.result.val.keys]
    /\ UNCHANGED <<now, log, poolVars, connVars, histVars, recording, shard,
                   budget, arg, ret>>

\* One turn of for key in all_keys.
search_visit ==
    /\ thr.pc = "loop"
    /\ thr.keys # <<>>
    /\ \E key \in {Head(thr.keys)} :
       \E queries_lower \in {[i \in 1..Len(arg.queries) |-> to_lowercase(arg.queries[i])]} :
       \E one \in {search_key(cache, arg.search_type, key, queries_lower, now)} :
          /\ cache' = one.cache
          /\ thr' = [thr EXCEPT
                       !.keys = Tail(@),
                       !.matching_keys = IF one.should_include THEN Append(@, key) ELSE @,
                       !.missing = IF arg.search_type # "Key" /\ key \notin DOMAIN cache.storage
                                   THEN @ \cup {key} ELSE @]
    /\ UNCHANGED <<now, log, poolVars, connVars, histVars, recording, shard,
                   budget, arg, ret>>

\* Ok(matching_keys)
search_return ==
    /\ thr.pc = "loop"
    /\ thr.keys = <<>>
    /\ thr' = [thr EXCEPT !.pc = "done"]
    /\ ret' = <<Ok(VecV(thr.matching_keys))>>
    /\ UNCHANGED <<storeVars, poolVars, connVars, histVars, recording, shard,
                   budget, arg>>

\* Another worker executes DEL key while the search is under way.
concurrent_delete(key) ==
    /\ thr.pc = "loop"
    /\ budget > 0
    /\ cache' = Sodium_delete(cache, key).cache
    /\ budget' = budget - 1
    /\ UNCHANGED <<now, log, poolVars, connVars, histVars, recording, shard, thr,
                   arg, ret>>

NextSearchDel ==
    \/ search_snapshot
    \/ search_visit
    \/ search_return
    \/ \E key \in SearchKeys : concurrent_delete(key)

SpecSearchDel == InitSearchDel /\ [][NextSearchDel]_vars

\* The search visits key in this step and its value fetch finds the key
\* gone.
FetchMisses(key) ==
    /\ thr.pc = "loop"
    /\ thr.keys # <<>>
    /\ Head(thr.keys) = key
    /\ thr'.keys = Tail(thr.keys)
    /\ arg.search_type # "Key"
    /\ key \notin DOMAIN cache.storage

\* C29: a key of the snapshot that is gone when its value is fetched has V
\* false: the modes Value and KeyAndValue never emit it and KeyOrValue emits
\* it exactly when K holds; so it is with the result returned.
C29_SearchUnderDeletion ==
    /\ [][\A key \in SearchKeys :
            FetchMisses(key) =>
               /\ arg.search_type \in {"Value", "KeyAndValue"} =>
                      thr'.matching_keys = thr.matching_keys
               /\ arg.search_type = "KeyOrValue" =>
                      thr'.matching_keys = IF MatchesK(key)
                                           THEN Append(thr.matching_keys, key)
                                           ELSE thr.matching_keys]_vars
    /\ [](ret # <<>> =>
            \A key \in thr.missing :
                key \in Found <=> (arg.search_type = "KeyOrValue" /\ MatchesK(key)))

\* A KeyOrValue search for a returned aB, deleted after the snapshot and
\* gone at its value fetch, by its key.
C29_Witness ==
    /\ ret # <<>>
    /\ arg.search_type = "KeyOrValue"
    /\ arg.queries = << <<"a">> >>
    /\ thr.missing = {<<"a", "B">>}
    /\ <<"a", "B">> \in Found
    /\ <<"a", "B">> \notin DOMAIN cache.storage

(***************************************************************************)
(* SpecSplit: Command::split_function_args (sodium-server/api.rs) on every *)
(* argument list of at most MaxArgsLen characters among a comma, a quote,  *)
(* the two brackets, a letter and a space.                                 *)
(***************************************************************************)
MaxArgsLen == 4

ArgsAlphabet == {",", Quote, "[", "]", "a", " "}

InitSplit ==
    /\ AtRest
    /\ arg \in Strings(ArgsAlphabet, MaxArgsLen)
    /\ ret = <<>>

call_split_function_args ==
    /\ ret = <<>>
    /\ ret' = <<split_function_args(arg)>>
    /\ UNCHANGED <<storeVars, poolVars, connVars, histVars, recording, shard, thr,
                   budget, arg>>

SpecSplit == InitSplit /\ [][call_split_function_args]_vars

\* The brackets of s outside quotes before position i: opened less closed.
BracketDepth(s, i) ==
    Cardinality({j \in 1..(i - 1) : s[j] = "[" /\ ~InQuotesBefore(s, j)})
        - Cardinality({j \in 1..(i - 1) : s[j] = "]" /\ ~InQuotesBefore(s, j)})

\* Every quote of s is closed; every bracket outside quotes is matched, each
\* ] after its [.
QuotesClosed(s) == ~InQuotesBefore(s, Len(s) + 1)

BracketsBalanced(s) ==
    /\ BracketDepth(s, Len(s) + 1) = 0
    /\ \A i \in 1..Len(s) : BracketDepth(s, i + 1) >= 0

\* The commas of s outside quotes and outside brackets, and the pieces of s
\* between them, trimmed; a last piece that is blank is not an argument.
SplitPoints(s) ==
    {i \in 1..Len(s) : s[i] = "," /\ ~InQuotesBefore(s, i) /\ BracketDepth(s, i) = 0}

RECURSIVE PiecesFrom(_, _)
PiecesFrom(s, from) ==
    LET later == {i \in SplitPoints(s) : i >= from}
    IN  IF later = {}
        THEN (IF trim(SubSeq(s, from, Len(s))) = <<>> THEN <<>>
              ELSE <<trim(SubSeq(s, from, Len(s)))>>)
        ELSE LET i == CHOOSE x \in later : \A y \in later : x <= y
             IN  <<trim(SubSeq(s, from, i - 1))>> \o PiecesFrom(s, i + 1)

\* C30: an argument list is split exactly when its quotes are closed and its
\* brackets balanced, a ] that precedes its [ being unbalanced; the
\* arguments are then the pieces between the commas that lie outside quotes
\* and outside brackets.
C30_ArgumentSplitting ==
    ret # <<>> =>
        /\ ret[1].ok <=> (QuotesClosed(arg) /\ BracketsBalanced(arg))
        /\ ret[1].ok => ret[1].val = PiecesFrom(arg, 1)

\* The same without the order of the brackets: as many ] as [ outside
\* quotes is enough to be split.
SplitWhenCountsAgree ==
    ret # <<>> =>
        /\ ret[1].ok <=> (QuotesClosed(arg) /\ BracketDepth(arg, Len(arg) + 1) = 0)
        /\ (ret[1].ok /\ BracketsBalanced(arg)) => ret[1].val = PiecesFrom(arg, 1)

(***************************************************************************)
(* SpecSearchArgs: Command::parse (sodium-server/api.rs) on the lines      *)
(* search(<mode>, <queries>), the mode one quoted term or two joined by or *)
(* / and, the queries a string or an array.                                *)
(***************************************************************************)
\* The terms of a mode: key, value, and two that are neither.
ModeTerms ==
    {<<"k", "e", "y">>, <<"v", "a", "l", "u", "e">>, <<"k", "e", "y", "s">>,
     <<"K", "E", "Y">>}

\* The operators of a mode; none for a mode of one term.
ModeOperators == {<<>>, <<"o", "r">>, <<"a", "n", "d">>}

\* The query arguments: "x", ["x", "y"], "a or b", x; and "", [], [ ],
\* ["x", ""].
FilledQueryArgs ==
    {<<Quote, "x", Quote>>,
     <<"[", Quote, "x", Quote, ",", " ", Quote, "y", Quote, "]">>,
     <<Quote, "a", " ", "o", "r", " ", "b", Quote>>,
     <<"x">>}

EmptyQueryArgs ==
    {<<Quote, Quote>>,
     <<"[", "]">>,
     <<"[", " ", "]">>,
     <<"[", Quote, "x", Quote, ",", " ", Quote, Quote, "]">>}

Quoted(term) == <<Quote>> \o term \o <<Quote>>

\* The text of the mode and of the whole line.
ModeText(a) ==
    IF a.operator = <<>> THEN Quoted(a.left)
    ELSE Quoted(a.left) \o <<" ">> \o a.operator \o <<" ">> \o Quoted(a.right)

SearchLine(a) ==
    <<"s", "e", "a", "r", "c", "h", "(">> \o ModeText(a) \o <<",", " ">>
        \o a.queries \o <<")">>

InitSearchArgs ==
    /\ AtRest
    /\ arg \in {a \in [left : ModeTerms, operator : ModeOperators, right : ModeTerms,
                       queries : FilledQueryArgs \cup EmptyQueryArgs] :
                  a.operator = <<>> => a.right = a.left}
    /\ ret = <<>>

call_parse_search ==
    /\ ret = <<>>
    /\ ret' = <<parse(SearchLine(arg))>>
    /\ UNCHANGED <<storeVars, poolVars, connVars, histVars, recording, shard, thr,
                   budget, arg>>

SpecSearchArgs == InitSearchArgs /\ [][call_parse_search]_vars

\* A side of a mode is exactly key or value.
IsKeyOrValue(term) == term \in {<<"k", "e", "y">>, <<"v", "a", "l", "u", "e">>}

\* C31: with queries that are in order, search parses exactly when every
\* side of its mode is key or value; one term gives the mode Key or Value,
\* two terms joined by or give KeyOrValue, joined by and KeyAndValue.
C31_SearchMode ==
    (ret # <<>> /\ arg.queries \in FilledQueryArgs) =>
        /\ ret[1].ok <=> (IsKeyOrValue(arg.left) /\ IsKeyOrValue(arg.right))
        /\ ret[1].ok =>
              /\ ret[1].val.op = "Search"
              /\ ret[1].val.search_type =
                    (IF arg.operator = <<"o", "r">> THEN "KeyOrValue"
                     ELSE IF arg.operator = <<"a", "n", "d">> THEN "KeyAndValue"
                     ELSE IF arg.left = <<"k", "e", "y">> THEN "Key"
                     ELSE "Value")

\* The same for the modes of two terms written key first, value second;
\* every other pair of sides is a parse error.
SearchModeKeyFirst ==
    (ret # <<>> /\ arg.queries \in FilledQueryArgs) =>
        /\ ret[1].ok <=>
              IF arg.operator = <<>> THEN IsKeyOrValue(arg.left)
              ELSE arg.left = <<"k", "e", "y">> /\ arg.right = <<"v", "a", "l", "u", "e">>
        /\ ret[1].ok =>
              ret[1].val.search_type =
                    (IF arg.operator = <<"o", "r">> THEN "KeyOrValue"
                     ELSE IF arg.operator = <<"a", "n", "d">> THEN "KeyAndValue"
                     ELSE IF arg.left = <<"k", "e", "y">> THEN "Key"
                     ELSE "Value")

\* C32: a Search command that parsed carries at least one query and no
\* empty one; an empty string, an empty array and an array holding an empty
\* query are rejected.
C32_SearchQueries ==
    ret # <<>> =>
        /\ (ret[1].ok /\ ret[1].val.op = "Search") =>
              /\ ret[1].val.queries # <<>>
              /\ \A i \in 1..Len(ret[1].val.queries) : ret[1].val.queries[i] # ""
        /\ arg.queries \in EmptyQueryArgs => ~ret[1].ok

\* search("key" and "value", ["x", "y"]) has parsed to a search for x and y.
C32_Witness ==
    /\ ret # <<>>
    /\ ret[1] = Ok(CmdSearch("KeyAndValue", <<"x", "y">>))

(***************************************************************************)
(* SpecLegacySet: Command::parse of server/api.rs on the lines             *)
(* "SET k " followed by every string of at most MaxRestLen characters      *)
(* among a letter, a space, a tab and a quote.                             *)
(***************************************************************************)
MaxRestLen == 6

RestAlphabet == {"a", " ", "\t", Quote}

LegacySetLine(rest) == <<"S", "E", "T", " ", "k", " ">> \o rest

InitLegacySet ==
    /\ AtRest
    /\ arg \in Strings(RestAlphabet, MaxRestLen)
    /\ ret = <<>>

call_server_parse_set ==
    /\ ret = <<>>
    /\ ret' = <<server_parse(LegacySetLine(arg))>>
    /\ UNCHANGED <<storeVars, poolVars, connVars, histVars, recording, shard, thr,
                   budget, arg>>

SpecLegacySet == InitLegacySet /\ [][call_server_parse_set]_vars

\* s with every run of whitespace turned into one space.
RECURSIVE Squeeze(_)
Squeeze(s) ==
    IF s = <<>> THEN <<>>
    ELSE IF ~is_whitespace(s[1]) THEN <<s[1]>> \o Squeeze(Tail(s))
    ELSE IF Len(s) > 1 /\ is_whitespace(s[2]) THEN Squeeze(Tail(s))
    ELSE <<" ">> \o Squeeze(Tail(s))

\* The remainder of the line after the key, and whether it is a quoted
\* text: an opening and a closing quote around it.
Remainder == trim(arg)

IsQuotedText(s) == Len(s) >= 2 /\ s[1] = Quote /\ s[Len(s)] = Quote

\* C33: a legacy SET with no value after the key is a parse error; a
\* remainder in quotes gives the text between them, as it is; any other
\* remainder gives its tokens joined by single spaces.
C33_LegacySetValue ==
    ret # <<>> =>
        /\ ret[1].ok <=> Remainder # <<>>
        /\ ret[1].ok =>
              /\ ret[1].val.op = "Set"
              /\ ret[1].val.key = "k"
              /\ ret[1].val.value =
                    IF IsQuotedText(Remainder)
                    THEN Str(SubSeq(Remainder, 2, Len(Remainder) - 1))
                    ELSE Str(Squeeze(Remainder))

\* SET k "a  a" has kept the two spaces between the quotes.
C33_Witness ==
    /\ arg = <<Quote, "a", " ", " ", "a", Quote>>
    /\ ret = <<Ok(CmdSet("k", "a  a"))>>

(***************************************************************************)
(* SpecInsert: a server of either build (arg names the build: server/ with *)
(* the legacy syntax, sodium-server/ with the function-call syntax) is     *)
(* sent MaxRequests lines; each is parsed and, when it parses, executed.   *)
(* The lines name keys that satisfy the key invariant and keys that do     *)
(* not.                                                                    *)
(***************************************************************************)
MaxRequests == 3

\* a  a-b  a_1 ;  (empty)  -a  a_  a--b  a-_b  a.b  "a b"
InsertKeys ==
    {<<"a">>, <<"a", "-", "b">>, <<"a", "_", "1">>,
     <<>>, <<"-", "a">>, <<"a", "_">>, <<"a", "-", "-", "b">>,
     <<"a", "-", "_", "b">>, <<"a", ".", "b">>, <<"a", " ", "b">>}

InsertValues == {<<"v">>, <<"w">>}

\* set(k,v)  set("k",v)  SET k v  get(k)  GET k
InsertLines ==
    UNION {{<<"s", "e", "t", "(">> \o k \o <<",">> \o v \o <<")">>,
            <<"s", "e", "t", "(">> \o Quoted(k) \o <<",">> \o v \o <<")">>,
            <<"S", "E", "T", " ">> \o k \o <<" ">> \o v,
            <<"g", "e", "t", "(">> \o k \o <<")">>,
            <<"G", "E", "T", " ">> \o k} : k \in InsertKeys, v \in InsertValues}

Builds == {"server", "sodium-server"}

InitInsert ==
    /\ NoPool
    /\ NoRace
    /\ cache = Sodium_new
    /\ now = 0
    /\ log = <<>>
    /\ recording = TRUE
    /\ budget = MaxRequests
    /\ arg \in Builds
    /\ ret = <<>>

\* handle_client on one line, the task executed at once.
serve_line(line) ==
    /\ budget > 0
    /\ budget' = budget - 1
    /\ \E parsed \in {IF arg = "server" THEN server_parse(line) ELSE parse(line)} :
          /\ ret' = <<parsed>>
          /\ cache' = IF parsed.ok
                      THEN execute_task(cache, parsed.val, now, <<>>).cache
                      ELSE cache
    /\ UNCHANGED <<now, log, poolVars, connVars, histVars, recording, shard, thr, arg>>

NextInsert == \E line \in InsertLines : serve_line(line)

SpecInsert == InitInsert /\ [][NextInsert]_vars

\* C34: every key of the store is the text of a key that satisfies the key
\* invariant, whatever lines were sent, in the legacy syntax or in the
\* function-call syntax.
C34_StoredKeysValid ==
    \A k \in DOMAIN cache.storage :
        \E s \in InsertKeys : Str(s) = k /\ KeyInvariant(s)

\* The three valid keys have been inserted.
C34_Witness ==
    /\ DOMAIN cache.storage = {"a", "a-b", "a_1"}
    /\ cache.total_operations = MaxRequests

\* The places where the task that answers request t is: positions of the
\* queues and hands of the workers.
PlacesOf(t) ==
    UNION {{<<q, i>> : i \in {j \in DOMAIN queues[q] : queues[q][j].sender = t}} :
             q \in Queues}
    \cup {<<w, 0>> : w \in {x \in Workers : workers[x].task # <<>>
                                           /\ workers[x].task[1].sender = t}}

TimesExecuted(t) == IF t \in DOMAIN executed THEN executed[t] ELSE 0

\* C35: an accepted task is in one place at a time, a queue or the hands of
\* one worker, until it is executed, and is executed once at most: no two
\* workers hold the same task and the store has had one operation per
\* executed task.
C35_ExecutedAtMostOnce ==
    /\ \A t \in accepted : Cardinality(PlacesOf(t)) + TimesExecuted(t) = 1
    /\ \A t \in DOMAIN executed : t \in accepted /\ executed[t] = 1
    /\ \A w1, w2 \in Workers :
          (w1 # w2 /\ workers[w1].task # <<>> /\ workers[w2].task # <<>>)
              => workers[w1].task[1].sender # workers[w2].task[1].sender
    /\ cache.total_operations = Cardinality(DOMAIN executed)

\* Both workers hold a task, after another task was executed.
C35_Witness ==
    /\ \A w \in Workers : workers[w].pc = "exec" /\ workers[w].task # <<>>
    /\ DOMAIN executed # {}

(***************************************************************************)
(* SpecVisible: connection 1 sends SET k1 v1 and, once it has the reply,   *)
(* may send DEL k1; connection 2 sends GET k1 after it has seen the reply  *)
(* to the SET written.  Nobody calls shutdown.                             *)
(***************************************************************************)
writer_send ==
    /\ conns[1].lines < 2
    /\ handle_client_read(1, IF conns[1].lines = 0 THEN CmdSet("k1", "v1")
                                  ELSE CmdDelete("k1"))

reader_send ==
    /\ conns[1].resps >= 1
    /\ handle_client_read(2, CmdGet("k1"))

InitVisible ==
    /\ InitPool
    /\ recording = TRUE

NextVisible ==
    \/ writer_send
    \/ reader_send
    \/ \E c \in Conns : ConnStep(c)
    \/ \E w \in Workers : WorkerStep(w)

SpecVisible == InitVisible /\ [][NextVisible]_vars

\* The SET of the writer was answered OK before the reader sent anything.
SetAcknowledged == conns[1].resps >= 1 /\ <<1, 1>> \notin rejected

\* The DEL of the writer has been applied.
DelApplied == <<1, 2>> \in DOMAIN executed

\* C36 as stated: a GET k issued on another connection after the OK to
\* SET k v was written is answered v, unless the DEL was applied in between.
C36_Visibility ==
    [][\A n \in 1..MaxLines :
         (Replies(2, n) /\ SetAcknowledged) =>
            \/ conns'[2].out = "v1"
            \/ DelApplied]_vars

\* C36 as amended: such a GET, when it is executed, is answered v, or NULL
\* when the DEL was applied in between; a GET whose submission is refused is
\* answered the dispatch error.
C36_VisibilityOfExecuted ==
    [][\A n \in 1..MaxLines :
         (Replies(2, n) /\ SetAcknowledged) =>
            IF <<2, n>> \in rejected
            THEN conns'[2].out = ErrorLine(FailedToQueue)
            ELSE \/ conns'[2].out = "v1"
                 \/ conns'[2].out = "NULL" /\ DelApplied]_vars

\* The reader has been answered v1 twice, the writer having sent its SET
\* only.
C36_Witness ==
    /\ conns[1].lines = 1 /\ conns[1].out = "OK"
    /\ conns[2].pc = "read" /\ conns[2].resps = 2
    /\ conns[2].out = "v1"
    /\ rejected = {}

(***************************************************************************)
(* The queue locks: who holds them, and for how long.                      *)
(***************************************************************************)
Threads == {WorkerThread(w) : w \in Workers} \cup {ConnTask(c) : c \in Conns}

\* The queues whose mutex thread t holds.
LocksOf(t) == {q \in Queues : lock[q] = t}

\* Worker w is inside pop or steal on queue q, between try_lock and return.
InsideTake(w, q) ==
    \/ workers[w].pc = "popping" /\ q = w
    \/ workers[w].pc = "stealing" /\ q = workers[w].victim

\* Connection c is inside push on queue q, between try_lock and return.
InsidePush(c, q) == conns[c].pc = "pushing" /\ conns[c].queue = q

\* C37: a queue's lock is held only inside pop, steal or push on that queue,
\* whose next step releases it and can always be taken; no thread holds two
\* locks; a worker that executes a task holds none, so that a push to its
\* queue and a steal from it take the lock when nobody else is inside; and
\* every held lock is released.
C37_QueueLocks ==
    /\ [](\A q \in Queues :
            /\ \A w \in Workers :
                 lock[q] = WorkerThread(w) =>
                    /\ InsideTake(w, q)
                    /\ ENABLED (WorkQueue_pop_front(w) \/ WorkQueue_steal_back(w))
            /\ \A c \in Conns :
                 lock[q] = ConnTask(c) =>
                    /\ InsidePush(c, q)
                    /\ ENABLED WorkQueue_push_back(c))
    /\ [](\A t \in Threads : Cardinality(LocksOf(t)) <= 1)
    /\ [](\A w \in Workers :
            workers[w].pc = "exec" =>
               /\ LocksOf(WorkerThread(w)) = {}
               /\ \A c \in Conns :
                    (/\ lock[w] = Free /\ ~QueueRefuses(w)
                     /\ conns[c].pc = "push" /\ conns[c].queue = w)
                       => ENABLED (WorkQueue_push(c) /\ conns'[c].pc = "pushing")
               /\ \A w2 \in Workers :
                    (/\ lock[w] = Free
                     /\ workers[w2].pc = "steal" /\ workers[w2].victim = w)
                       => ENABLED (WorkQueue_steal(w2) /\ workers'[w2].pc = "stealing"))
    /\ [][\A q \in Queues :
            (lock[q] # Free /\ lock'[q] # lock[q]) => lock'[q] = Free]_vars
    /\ \A q \in Queues : (lock[q] # Free) ~> (lock[q] = Free)

\* Worker 0 executes a task while worker 1 is inside steal on queue 0 and a
\* connection is inside push on queue 1.
C37_Witness ==
    /\ workers[0].pc = "exec" /\ workers[0].task # <<>>
    /\ lock[0] = WorkerThread(1) /\ InsideTake(1, 0)
    /\ \E c \in Conns : lock[1] = ConnTask(c) /\ InsidePush(c, 1)

(***************************************************************************)
(* SpecEffects: one command executed against a store that was filled       *)
(* earlier, the clock having advanced since.                               *)
(***************************************************************************)
\* execute_get on a key that is a string of characters.
execute_get_of_text(c, key, t) ==
    LET r == cache_get(c, key, t)
    IN  [cache |-> r.cache,
         result |-> IF r.result.ok THEN Ok(SomeV(r.result.val.v)) ELSE Ok(NoneV)]

\* The match of execute_command in the build that has SEARCH.
execute_cache_task(c, cmd, t, order) ==
    CASE cmd.op = "Get" -> execute_get_of_text(c, cmd.key, t)
      [] cmd.op = "Set" -> execute_set(c, cmd.key, cmd.value, t)
      [] cmd.op = "Delete" -> execute_delete(c, cmd.key)
      [] cmd.op = "Keys" -> execute_keys(c, order)
      [] cmd.op = "Search" -> search_multiple(c, cmd.search_type, cmd.queries, order, t)

EffectCommands ==
    {CmdSet(k, v) : k \in SearchKeys, v \in SearchValues}
        \cup {CmdGet(k) : k \in SearchKeys}
        \cup {CmdDelete(k) : k \in SearchKeys}
        \cup {CmdKeys}
        \cup {CmdSearch(ty, qs) : ty \in SearchTypes, qs \in [1..1 -> SearchTerms]}

InitEffects ==
    /\ NoPool
    /\ NoRace
    /\ budget = 0
    /\ now = 1
    /\ log = <<>>
    /\ recording = TRUE
    /\ cache \in SearchStores
    /\ arg \in [cmd : EffectCommands, order : Arrangements(SearchKeys)]
    /\ ret = <<>>

call_execute_cache_task ==
    /\ ret = <<>>
    /\ LET r == execute_cache_task(cache, arg.cmd, now, arg.order)
       IN  /\ cache' = r.cache
           /\ ret' = <<r.result>>
    /\ UNCHANGED <<now, log, poolVars, connVars, histVars, recording, shard, thr,
                   budget, arg>>

SpecEffects == InitEffects /\ [][call_execute_cache_task]_vars

\* The entries of every key but k are the same in stores c and d.
SameButFor(c, d, k) ==
    \A k2 \in SearchKeys \ {k} :
        /\ k2 \in DOMAIN d.storage <=> k2 \in DOMAIN c.storage
        /\ k2 \in DOMAIN c.storage => d.storage[k2] = c.storage[k2]

\* C38: GET, KEYS and SEARCH leave the key-to-value mapping as it was, SET k
\* and DEL k leave every key but k as it was, and a SEARCH in mode Key
\* leaves every entry (its accessed_at included) and the hit and miss
\* counters as they were.
C38_Effects ==
    [][ret' # <<>> =>
         /\ arg.cmd.op \in {"Get", "Keys", "Search"} => Mapping(cache') = Mapping(cache)
         /\ arg.cmd.op \in {"Set", "Delete"} => SameButFor(cache, cache', arg.cmd.key)
         /\ (arg.cmd.op = "Search" /\ arg.cmd.search_type = "Key") =>
               /\ cache'.storage = cache.storage
               /\ cache'.hit_count = cache.hit_count
               /\ cache'.miss_count = cache.miss_count]_vars

\* A SEARCH in mode Key has matched two of three keys; the entries have the
\* access time of their SET and no GET was counted.
C38_Witness ==
    /\ ret # <<>>
    /\ arg.cmd.op = "Search" /\ arg.cmd.search_type = "Key"
    /\ Len(ret[1].val.keys) = 2
    /\ DOMAIN cache.storage = SearchKeys
    /\ \A k \in SearchKeys : cache.storage[k].accessed_at = 0
    /\ cache.hit_count = 0 /\ cache.miss_count = 0
    /\ cache.total_operations = 4

\* C39: the line answered to a GET of k is NULL exactly when k was absent
\* from the store when the GET was executed.
C39_NullIffAbsent ==
    \A i \in 1..Len(log) :
        log[i].cmd.op = "Get" =>
            (log[i].line = "NULL" <=> log[i].cmd.key \notin DOMAIN log[i].before)

\* The half of it that holds: a GET of an absent key is answered NULL, and a
\* GET of a present key is answered its value.
NullWhenAbsent ==
    \A i \in 1..Len(log) :
        log[i].cmd.op = "Get" =>
            log[i].line = (IF log[i].cmd.key \in DOMAIN log[i].before
                           THEN log[i].before[log[i].cmd.key] ELSE "NULL")

=============================================================================
